---- MODULE Spec2Model ----
(***************************************************************************)
(* A model of the qdrant segment (lib/segment/src/segment.rs): versioned   *)
(* point operations behind the error latch, the flush protocol with its    *)
(* background thread, segment load, and WAL replay of a local shard.       *)
(*                                                                         *)
(* The in-memory segment is one record (variable seg); the operations of   *)
(* segment.rs are operators from a segment record to a segment record and  *)
(* a result, so that the same definitions serve the direct calls of Spec,  *)
(* the flush protocol of SpecFlush and the WAL replay of SpecWal.          *)
(***************************************************************************)
EXTENDS Integers, Sequences, FiniteSets, TLC

\* ------------------------------------------------------------------ bounds
MaxPoints == 2
MaxOpNum == 2
MaxInternal == 2
MaxVec == 2
MaxWal == 3
MaxSegments == 2
MaxQueue == 2
MaxSent == 3

\* Option::None of every Option<_> field (versions, offsets, point ids).
None == -1

PointIds == 1..MaxPoints
OpNums == 0..MaxOpNum
Offsets == 0..(MaxInternal - 1)
\* Vector values; WrongDim is a vector whose length is not the configured one.
Vecs == 1..MaxVec
WrongDim == 0
\* WrongSet is a set of named vectors that check_vectors_set refuses (a
\* name the segment does not have, or a missing one).
WrongSet == -2
PayloadKeys == {"k"}
Payloads == SUBSET PayloadKeys

max(a, b) == IF a >= b THEN a ELSE b
unwrap_or(opt, d) == IF opt = None THEN d ELSE opt

\* ----------------------------------------------------------------- results
\* OperationResult<bool>; `off` carries the offset a wrapped closure reports.
Ok(b) == [ok |-> TRUE, val |-> b, err |-> "none"]
Err(e) == [ok |-> FALSE, val |-> FALSE, err |-> e]
\* get_service_error: Some(..) exactly for OperationError::ServiceError.  The
\* latch's own rejection is a ServiceError too ("Not recovered ...").
ServiceErrors == {"ServiceError", "NotRecovered"}
\* A test that takes every error for a service error.
AnyError(res) == ~res.ok
get_service_error(res) == (~res.ok) /\ res.err \in ServiceErrors

\* -------------------------------------------------------------- id tracker
\* [e2i: external -> offset, i2e: offset -> external, i2v: offset -> version,
\*  size: number of offsets handed out]
EmptyTracker ==
    [e2i |-> [p \in PointIds |-> None],
     i2e |-> [i \in Offsets |-> None],
     i2v |-> [i \in Offsets |-> None],
     size |-> 0]

internal_id(t, p) == t.e2i[p]
external_id(t, i) == IF i \in Offsets THEN t.i2e[i] ELSE None
internal_version(t, i) == IF i \in Offsets THEN t.i2v[i] ELSE None
internal_size(t) == t.size
set_internal_version(t, i, v) == [t EXCEPT !.i2v[i] = v]
set_link(t, p, i) ==
    [t EXCEPT !.e2i[p] = i, !.i2e[i] = p, !.size = max(t.size, i + 1)]
\* A drop that forgets the external id and leaves the offset pointing at it.
ForgetExternal(t, p) == [t EXCEPT !.e2i[p] = None]
\* drop removes the external id in both directions (the offset is a tombstone).
drop(t, p) ==
    IF t.e2i[p] = None THEN t
    ELSE [t EXCEPT !.e2i[p] = None, !.i2e[t.e2i[p]] = None]

\* ----------------------------------------------------------------- segment
\* SegmentConfig is the record [names, distance]: the named vectors (in
\* the order the maps iterate) and the distance, which decides the
\* preprocessing of upserted vectors.
NoError == [set |-> FALSE, version |-> None, point_id |-> None]

EmptyPayloadIndex == [config |-> {}, field_indexes |-> {}]

NewSegment(version, config) ==
    [version |-> version,
     error_status |-> NoError,
     id_tracker |-> EmptyTracker,
     vector_storage |-> [n \in {"a", "b"} |-> [i \in Offsets |-> None]],
     payload |-> [i \in Offsets |-> {}],
     payload_index |-> EmptyPayloadIndex,
     segment_config |-> config]

\* Distance::preprocess_vector: Cosine normalises (every vector value of the
\* model is a multiple of the unit vector 1), the other distances store as is.
preprocess_vector(distance, v) == IF distance = "Cosine" THEN 1 ELSE v

point_version(s, p) ==
    IF internal_id(s.id_tracker, p) = None THEN None
    ELSE internal_version(s.id_tracker, internal_id(s.id_tracker, p))

\* ------------------------------------------------ payload index (wrapped)
\* StructPayloadIndex over the payload storage: assign merges the given keys
\* into the stored payload, assign_all replaces it, delete removes one key,
\* drop removes the whole payload of the offset.
pi_assign(s, i, pl) == [s EXCEPT !.payload[i] = @ \cup pl]
pi_assign_all(s, i, pl) == [s EXCEPT !.payload[i] = pl]
pi_delete(s, i, key) == [s EXCEPT !.payload[i] = @ \ {key}]
pi_drop(s, i) == [s EXCEPT !.payload[i] = {}]

\* set_indexed: a new field is put into the config, the config is saved and
\* the index is built; a failure of either leaves the field in the config
\* without an index.  `fault` = 1 fails save_config, 2 fails build_and_save.
set_indexed(s, key, fault) ==
    IF key \in s.payload_index.config
    THEN [seg |-> s, ok |-> TRUE]
    ELSE LET s1 == [s EXCEPT !.payload_index.config = @ \cup {key}] IN
         IF fault \in {1, 2}
         THEN [seg |-> s1, ok |-> FALSE]
         ELSE [seg |-> [s1 EXCEPT !.payload_index.field_indexes = @ \cup {key}],
               ok |-> TRUE]

\* drop_index: the field leaves the config, the config is saved (fault 1),
\* then the index leaves the map.
drop_index(s, key, fault) ==
    LET s1 == [s EXCEPT !.payload_index.config = @ \ {key}] IN
    IF fault = 1
    THEN [seg |-> s1, ok |-> FALSE]
    ELSE [seg |-> [s1 EXCEPT !.payload_index.field_indexes = @ \ {key}],
          ok |-> TRUE]

\* infer_payload_type: the schema of `key` in the first stored payload.
infer_payload_type(s, key) ==
    LET stored == {i \in Offsets : s.payload[i] # {}} IN
    IF stored = {} THEN None
    ELSE LET first == CHOOSE i \in stored : \A j \in stored : i <= j IN
         IF key \in s.payload[first] THEN 1 ELSE None

\* ------------------------------------------------------- version handling
\* The outcome of a wrapped closure: the segment it leaves, its result and
\* the offset it reports (Ok((bool, Option<offset>))).  The wrappers return
\* the segment, the result and the path taken: "blocked" by the latch,
\* "stale_point" or "stale_segment" (skipped), "executed" (the closure ran),
\* or "absent" (delete_point returned before the wrapper).
Out(s, res, off) == [seg |-> s, res |-> res, off |-> off]

\* A comparison that also finds an operation at the recorded version stale.
IsStaleOrEqual(current_version, op_num) == current_version >= op_num

\* handle_version, the comparison alone: an operation is stale when the
\* recorded version is strictly higher than its op_num.
IsStale(current_version, op_num) == current_version > op_num

\* handle_version, the version written after a successful closure.
\* A segment version that an operation leaves as it was.
KeepVersion(version, op_num) == version

\* A segment version that every operation raises by one more.
BumpVersion(version, op_num) == max(op_num, unwrap_or(version, 0)) + 1

NextVersion(version, op_num) == max(op_num, unwrap_or(version, 0))

\* A handle_version that compares no versions and runs every operation.
HandleVersionNoSkip(s, op_num, op_point_offset, out) ==
    IF out.res.ok
    THEN LET s1 == [out.seg EXCEPT !.version = NextVersion(@, op_num)]
             s2 == IF out.off # None
                   THEN [s1 EXCEPT !.id_tracker =
                            set_internal_version(@, out.off, op_num)]
                   ELSE s1
         IN [seg |-> s2, res |-> out.res, path |-> "executed"]
    ELSE [seg |-> out.seg, res |-> out.res, path |-> "executed"]

handle_version(s, op_num, op_point_offset, out) ==
    LET stale ==
            IF op_point_offset = None
            THEN IsStale(unwrap_or(s.version, 0), op_num)
            ELSE LET cv == internal_version(s.id_tracker, op_point_offset) IN
                 cv # None /\ IsStale(cv, op_num)
    IN
    IF stale
    THEN [seg |-> s, res |-> Ok(FALSE),
          path |-> IF op_point_offset = None THEN "stale_segment"
                   ELSE "stale_point"]
    ELSE IF out.res.ok
    THEN LET s1 == [out.seg EXCEPT !.version = NextVersion(@, op_num)]
             s2 == IF out.off # None
                   THEN [s1 EXCEPT !.id_tracker =
                            set_internal_version(@, out.off, op_num)]
                   ELSE s1
         IN [seg |-> s2, res |-> out.res, path |-> "executed"]
    ELSE [seg |-> out.seg, res |-> out.res, path |-> "executed"]

\* A latch test that lets the operation right after the failed one through.
IsBlockedLate(error_status, op_num) ==
    error_status.set /\ error_status.version + 1 < op_num

\* handle_version_and_failure, the latch test: a newer operation is refused
\* while the failed one has not been retried.
IsBlocked(error_status, op_num) ==
    error_status.set /\ error_status.version < op_num

\* The external id the recovery and the latch compare: looked up through
\* the offset the caller resolved BEFORE the operation ran.
LatchPoint(s, op_point_offset) ==
    IF op_point_offset = None THEN None
    ELSE external_id(s.id_tracker, op_point_offset)

handle_version_and_failure(s, op_num, op_point_offset, out) ==
    IF IsBlocked(s.error_status, op_num)
    THEN [seg |-> s, res |-> Err("NotRecovered"), path |-> "blocked"]
    ELSE LET r == handle_version(s, op_num, op_point_offset, out)
             point_id == LatchPoint(r.seg, op_point_offset)
         IN
         IF get_service_error(r.res)
         THEN [r EXCEPT !.seg.error_status =
                  [set |-> TRUE, version |-> op_num, point_id |-> point_id]]
         ELSE IF r.seg.error_status.set /\ r.seg.error_status.point_id = point_id
         THEN [r EXCEPT !.seg.error_status = NoError]
         ELSE r

\* ------------------------------------------------------------ entry points
\* `fault` names the leaf storage call of the closure that fails with a
\* service error (0: none does); the calls before it have taken effect.

\* insert_vector for the first k named vectors, in the maps' order.
InsertVectors(s, k, i, v) ==
    LET names == s.segment_config.names IN
    [s EXCEPT !.vector_storage =
        [n \in DOMAIN @ |->
            IF \E j \in 1..k : names[j] = n THEN [@[n] EXCEPT ![i] = v]
            ELSE @[n]]]

\* The closure of upsert_vector: the dimension check and the preprocessing
\* of every vector, then update_vector on the stored offset or insert at
\* internal_size followed by set_link.
upsert_op(s, point_id, vec, stored_internal_point, fault) ==
    LET n == Len(s.segment_config.names)
        pv == preprocess_vector(s.segment_config.distance, vec)
        target == IF stored_internal_point # None THEN stored_internal_point
                  ELSE internal_size(s.id_tracker)
    IN
    IF vec = WrongDim THEN Out(s, Err("WrongVector"), None)
    ELSE IF fault \in 1..n
    THEN Out(InsertVectors(s, fault - 1, target, pv), Err("ServiceError"), None)
    ELSE IF stored_internal_point # None
    THEN Out(InsertVectors(s, n, target, pv), Ok(TRUE), target)
    ELSE IF fault = n + 1
    THEN Out(InsertVectors(s, n, target, pv), Err("ServiceError"), None)
    ELSE Out([InsertVectors(s, n, target, pv) EXCEPT
                 !.id_tracker = set_link(@, point_id, target)],
             Ok(FALSE), target)

upsert_vector(s, op_num, point_id, vec, fault) ==
    LET stored_internal_point == internal_id(s.id_tracker, point_id) IN
    IF vec = WrongSet
    THEN [seg |-> s, res |-> Err("VectorNameError"), path |-> "unchecked"]
    ELSE handle_version_and_failure(s, op_num, stored_internal_point,
            upsert_op(s, point_id, vec, stored_internal_point, fault))

\* The closure of delete_point: payload_index.drop, then id_tracker.drop.
delete_op(s, point_id, i, fault) ==
    IF fault = 1 THEN Out(s, Err("ServiceError"), None)
    ELSE IF fault = 2 THEN Out(pi_drop(s, i), Err("ServiceError"), None)
    ELSE Out([pi_drop(s, i) EXCEPT !.id_tracker = drop(@, point_id)],
             Ok(TRUE), i)

delete_point(s, op_num, point_id, fault) ==
    LET i == internal_id(s.id_tracker, point_id) IN
    IF i = None
    THEN [seg |-> s, res |-> Ok(FALSE), path |-> "absent"]
    ELSE handle_version_and_failure(s, op_num, i, delete_op(s, point_id, i, fault))

\* The closure shared by the four payload operations: the payload index
\* call on the stored offset, or PointIdError for a point that is missing.
payload_op(s, i, changed, fault) ==
    IF i = None THEN Out(s, Err("PointIdError"), None)
    ELSE IF fault = 1 THEN Out(s, Err("ServiceError"), None)
    ELSE Out(changed, Ok(TRUE), i)

set_full_payload(s, op_num, point_id, full_payload, fault) ==
    LET i == internal_id(s.id_tracker, point_id) IN
    handle_version_and_failure(s, op_num, i,
        payload_op(s, i, pi_assign_all(s, i, full_payload), fault))

set_payload(s, op_num, point_id, payload, fault) ==
    LET i == internal_id(s.id_tracker, point_id) IN
    handle_version_and_failure(s, op_num, i,
        payload_op(s, i, pi_assign(s, i, payload), fault))

delete_payload(s, op_num, point_id, key, fault) ==
    LET i == internal_id(s.id_tracker, point_id) IN
    handle_version_and_failure(s, op_num, i,
        payload_op(s, i, pi_delete(s, i, key), fault))

clear_payload(s, op_num, point_id, fault) ==
    LET i == internal_id(s.id_tracker, point_id) IN
    handle_version_and_failure(s, op_num, i,
        payload_op(s, i, pi_drop(s, i), fault))

\* create_field_index: with a schema, set_indexed; without one, the schema
\* is inferred from the stored payloads or the call fails TypeInferenceError.
create_field_index(s, op_num, key, with_schema, fault) ==
    handle_version_and_failure(s, op_num, None,
        IF (~with_schema) /\ infer_payload_type(s, key) = None
        THEN Out(s, Err("TypeInferenceError"), None)
        ELSE LET r == set_indexed(s, key, fault) IN
             Out(r.seg, IF r.ok THEN Ok(TRUE) ELSE Err("ServiceError"), None))

delete_field_index(s, op_num, key, fault) ==
    handle_version_and_failure(s, op_num, None,
        LET r == drop_index(s, key, fault) IN
        Out(r.seg, IF r.ok THEN Ok(TRUE) ELSE Err("ServiceError"), None))

\* ------------------------------------------------------------------- flush
\* What the segment directory holds: the id tracker's mapping and versions
\* columns, one column per vector storage, the payload column and the
\* segment state file.  The versions column is keyed by external id.
EmptyDisk ==
    [mapping |-> [p \in PointIds |-> None],
     vectors |-> [n \in {"a", "b"} |-> [i \in Offsets |-> None]],
     payload |-> [i \in Offsets |-> {}],
     versions |-> [p \in PointIds |-> None],
     state_version |-> None]

FlushStep(store, name) == [store |-> store, name |-> name]

\* The vector-storage part of the order: one flusher per named vector.
VectorSteps(s) ==
    [j \in 1..Len(s.segment_config.names) |->
        FlushStep("vector_storage", s.segment_config.names[j])]

\* The order flush_op swaps the payload index and the id versions into.
FlushOrderVersionsEarly(s) ==
    <<FlushStep("id_tracker_mapping", "")>> \o VectorSteps(s)
        \o <<FlushStep("id_tracker_versions", ""),
             FlushStep("payload_index", ""),
             FlushStep("segment_state", "")>>

\* flush_op: the flushers in the order the closure calls them.
FlushOrder(s) ==
    <<FlushStep("id_tracker_mapping", "")>> \o VectorSteps(s)
        \o <<FlushStep("payload_index", ""),
             FlushStep("id_tracker_versions", ""),
             FlushStep("segment_state", "")>>

\* One flusher run now: a store's flusher writes out what its column holds
\* when it runs; save_state writes the state captured when flush was called.
RunFlusher(step, s, d, state_version) ==
    IF step.store = "id_tracker_mapping"
    THEN [d EXCEPT !.mapping = s.id_tracker.e2i]
    ELSE IF step.store = "vector_storage"
    THEN [d EXCEPT !.vectors[step.name] = s.vector_storage[step.name]]
    ELSE IF step.store = "payload_index"
    THEN [d EXCEPT !.payload = s.payload]
    ELSE IF step.store = "id_tracker_versions"
    THEN [d EXCEPT !.versions = [p \in PointIds |-> point_version(s, p)]]
    ELSE [d EXCEPT !.state_version = state_version]

\* The id tracker opened on the stored columns: the mapping both ways, the
\* version of every mapped point, the size one past the highest offset.
LoadTracker(d) ==
    LET mapped == {d.mapping[p] : p \in PointIds} \ {None}
        ext(i) == IF \E p \in PointIds : d.mapping[p] = i
                  THEN CHOOSE p \in PointIds : d.mapping[p] = i
                  ELSE None
    IN [e2i |-> d.mapping,
        i2e |-> [i \in Offsets |-> ext(i)],
        i2v |-> [i \in Offsets |->
                    IF ext(i) = None THEN None ELSE d.versions[ext(i)]],
        size |-> IF mapped = {} THEN 0
                 ELSE 1 + CHOOSE i \in mapped : \A j \in mapped : j <= i]

\* load_segment: create_segment on the stored state and columns; the
\* payload index config is a file of its own that set_indexed and
\* drop_index save at once, and every configured field index is loaded.
load_segment(d, old) ==
    [version |-> d.state_version,
     error_status |-> NoError,
     id_tracker |-> LoadTracker(d),
     vector_storage |-> d.vectors,
     payload |-> d.payload,
     payload_index |-> [config |-> old.payload_index.config,
                        field_indexes |-> old.payload_index.config],
     segment_config |-> old.segment_config]

\* A flush_op that is not there, running (k steps done), or over.
NoRun == [status |-> "none", k |-> 0, version |-> None]

\* A captured state one version ahead of the segment.
StartRunAhead(version) ==
    [status |-> "running", k |-> 0, version |-> version + 1]

\* flush_op as flush captures it: get_state() holds the segment version.
StartRun(version) == [status |-> "running", k |-> 0, version |-> version]

\* A test that takes any persisted version for the segment's.
AlreadyFlushedAny(version, current_persisted_version) ==
    current_persisted_version # None

\* flush, the (Some(version), Some(persisted_version)) arm: nothing to do
\* when the two are equal.
AlreadyFlushed(version, current_persisted_version) ==
    current_persisted_version # None /\ version = current_persisted_version

\* lock_flushing: the join returns once the thread of the handle is over.
JoinReadyAlways(handle, thread) == TRUE

JoinReady(handle, thread) ==
    (~handle) \/ thread.status \in {"ok", "err"}

\* is_background_flushing: a handle is stored and its thread is not over.
is_background_flushing(handle, thread) ==
    handle /\ thread.status = "running"

\* ------------------------------------------------------------------- state
VARIABLES
    seg,                \* the in-memory Segment
    last,               \* the path the last call on the segment took
    persisted_version,  \* Segment.persisted_version
    disk,               \* the segment directory
    flush_thread,       \* Segment.flush_thread: the mutex, the stored join
                        \* handle and the background thread behind it
    callers,            \* the threads calling flush, each with its position
    flush_log,          \* the steps the last flush_op has completed
    wal,                \* the shard's write-ahead log
    shard               \* the LocalShard around the segment: its holder,
                        \* segments directory, update channel and workers

flushVars == <<persisted_version, disk, flush_thread, callers, flush_log>>

vars == <<seg, last, persisted_version, disk, flush_thread, callers,
          flush_log, wal, shard>>

NoCall == "none"

\* A call on the segment: the segment it leaves and the path it took.
Call(r) ==
    /\ seg' = r.seg
    /\ last' = r.path
    /\ UNCHANGED <<flushVars, wal, shard>>

\* What flush returned, and the return statement it came from: "background"
\* (a background flush is running), "joined" (the joined thread had failed),
\* "empty" (no version), "flushed" (already flushed), "spawned", "done"
\* (flush_op run by the caller).
NoRet == [ok |-> FALSE, val |-> None, via |-> "none"]
FlushOk(v, via) == [ok |-> TRUE, val |-> v, via |-> via]
FlushErr(via) == [ok |-> FALSE, val |-> 0, via |-> via]

Idle ==
    [pc |-> "idle", sync |-> FALSE, current_persisted_version |-> None,
     run |-> NoRun, ret |-> NoRet]

NoThread == [lock |-> None, handle |-> FALSE, thread |-> NoRun]

EmptyWal == [ops |-> <<>>, first |-> 0]

\* The specifications of one segment have no shard around it.
NoShard == [segments |-> <<>>]

\* build_segment: an empty segment with no version, nothing persisted but
\* the state file, no error, no flush thread; `cs` are the flush callers.
InitSegmentOf(config, cs) ==
    /\ seg = NewSegment(None, config)
    /\ last = NoCall
    /\ persisted_version = None
    /\ disk = EmptyDisk
    /\ flush_thread = NoThread
    /\ callers = [c \in cs |-> Idle]
    /\ flush_log = <<>>
    /\ wal = EmptyWal

InitSegment(config, cs) == InitSegmentOf(config, cs) /\ shard = NoShard

Init == InitSegment([names |-> <<"a">>, distance |-> "Dot"], {})

\* The model hands out at most MaxInternal offsets.
HasRoom(s, p) ==
    internal_id(s.id_tracker, p) # None
        \/ internal_size(s.id_tracker) < MaxInternal

\* The leaf calls of each closure that can fail.
UpsertFaults(s) == 0..(Len(s.segment_config.names) + 1)
DeleteFaults == 0..2
PayloadFaults == 0..1
CreateIndexFaults == 0..2
DeleteIndexFaults == 0..1

\* Every call of an entry point that can be made on segment s, with the
\* op_num and the point it names and what it returns.
CallOf(op, op_num, point, r) ==
    [op |-> op, op_num |-> op_num, point |-> point, out |-> r]

UpsertCalls(s) ==
    {CallOf("upsert_vector", n, p, upsert_vector(s, n, p, v, f)) :
        n \in OpNums, p \in {q \in PointIds : HasRoom(s, q)},
        v \in Vecs \cup {WrongDim}, f \in UpsertFaults(s)}

DeleteCalls(s) ==
    {CallOf("delete_point", n, p, delete_point(s, n, p, f)) :
        n \in OpNums, p \in PointIds, f \in DeleteFaults}

SetFullPayloadCalls(s) ==
    {CallOf("set_full_payload", n, p, set_full_payload(s, n, p, pl, f)) :
        n \in OpNums, p \in PointIds, pl \in Payloads, f \in PayloadFaults}

SetPayloadCalls(s) ==
    {CallOf("set_payload", n, p, set_payload(s, n, p, PayloadKeys, f)) :
        n \in OpNums, p \in PointIds, f \in PayloadFaults}

DeletePayloadCalls(s) ==
    {CallOf("delete_payload", n, p, delete_payload(s, n, p, k, f)) :
        n \in OpNums, p \in PointIds, k \in PayloadKeys, f \in PayloadFaults}

ClearPayloadCalls(s) ==
    {CallOf("clear_payload", n, p, clear_payload(s, n, p, f)) :
        n \in OpNums, p \in PointIds, f \in PayloadFaults}

CreateFieldIndexCalls(s) ==
    {CallOf("create_field_index", n, None, create_field_index(s, n, k, ws, f)) :
        n \in OpNums, k \in PayloadKeys, ws \in BOOLEAN,
        f \in CreateIndexFaults}

DeleteFieldIndexCalls(s) ==
    {CallOf("delete_field_index", n, None, delete_field_index(s, n, k, f)) :
        n \in OpNums, k \in PayloadKeys, f \in DeleteIndexFaults}

PointCalls(s) ==
    UpsertCalls(s) \cup DeleteCalls(s) \cup SetFullPayloadCalls(s)
        \cup SetPayloadCalls(s) \cup DeletePayloadCalls(s)
        \cup ClearPayloadCalls(s)

MutatingCalls(s) ==
    PointCalls(s) \cup CreateFieldIndexCalls(s) \cup DeleteFieldIndexCalls(s)

UpsertVector == \E c \in UpsertCalls(seg) : Call(c.out)

DeletePoint == \E c \in DeleteCalls(seg) : Call(c.out)

SetFullPayload == \E c \in SetFullPayloadCalls(seg) : Call(c.out)

SetPayload == \E c \in SetPayloadCalls(seg) : Call(c.out)

DeletePayload == \E c \in DeletePayloadCalls(seg) : Call(c.out)

ClearPayload == \E c \in ClearPayloadCalls(seg) : Call(c.out)

CreateFieldIndex == \E c \in CreateFieldIndexCalls(seg) : Call(c.out)

DeleteFieldIndex == \E c \in DeleteFieldIndexCalls(seg) : Call(c.out)

Next ==
    \/ UpsertVector
    \/ DeletePoint
    \/ SetFullPayload
    \/ SetPayload
    \/ DeletePayload
    \/ ClearPayload
    \/ CreateFieldIndex
    \/ DeleteFieldIndex

Spec == Init /\ [][Next]_vars

\* ----------------------------------------------------------- flush actions
\* flush takes &self and the mutating entry points &mut self: nothing
\* mutates the segment while a caller is inside flush.
AllIdle == \A c \in DOMAIN callers : callers[c].pc = "idle"

Return(c, ret) ==
    [callers EXCEPT ![c] = [Idle EXCEPT !.pc = "returned", !.ret = ret,
                                        !.sync = callers[c].sync]]

\* flush, entry: persisted_version is read; `!sync &&` skips the
\* background test of a sync flush.
FlushBegin(c, sync) ==
    /\ callers[c].pc = "idle"
    /\ callers' = [callers EXCEPT ![c] =
            [Idle EXCEPT !.pc = IF sync THEN "proceed" ELSE "entered",
                         !.sync = sync,
                         !.current_persisted_version = persisted_version]]
    /\ UNCHANGED <<seg, last, persisted_version, disk, flush_thread,
                   flush_log, wal, shard>>

\* flush(false), the is_background_flushing test (it takes the mutex).
FlushCheckBackground ==
    \E c \in DOMAIN callers :
        /\ callers[c].pc = "entered"
        /\ flush_thread.lock = None
        /\ callers' =
            IF is_background_flushing(flush_thread.handle, flush_thread.thread)
            THEN Return(c, FlushOk(unwrap_or(
                    callers[c].current_persisted_version, 0), "background"))
            ELSE [callers EXCEPT ![c].pc = "proceed"]
        /\ UNCHANGED <<seg, last, persisted_version, disk, flush_thread,
                       flush_log, wal, shard>>

\* A flush(false) that answers with the version it has only begun to flush.
SpawnedReturnVersion(current_persisted_version, version) == version

\* flush(false), after the spawn: Ok(current_persisted_version.unwrap_or(0)).
SpawnedReturn(current_persisted_version, version) ==
    unwrap_or(current_persisted_version, 0)

\* flush from lock_flushing on: the mutex is taken and the stored handle
\* joined; an error of the joined thread is returned; the version tests
\* return early; else the flushers and the state are captured and flush_op
\* is run by the caller (sync, holding the mutex) or spawned.
LockFlushing ==
    \E c \in DOMAIN callers :
        LET cur == callers[c].current_persisted_version
            t == flush_thread.thread
            left == IF t.status \in {"ok", "err"} THEN NoRun ELSE t
            joined == [lock |-> None, handle |-> FALSE, thread |-> left]
        IN
        /\ callers[c].pc = "proceed"
        /\ flush_thread.lock = None
        /\ JoinReady(flush_thread.handle, t)
        /\ IF flush_thread.handle /\ t.status = "err"
           THEN /\ callers' = Return(c, FlushErr("joined"))
                /\ flush_thread' = joined
                /\ UNCHANGED flush_log
           ELSE IF seg.version = None
           THEN /\ callers' = Return(c, FlushOk(unwrap_or(cur, 0), "empty"))
                /\ flush_thread' = joined
                /\ UNCHANGED flush_log
           ELSE IF AlreadyFlushed(seg.version, cur)
           THEN /\ callers' = Return(c, FlushOk(cur, "flushed"))
                /\ flush_thread' = joined
                /\ UNCHANGED flush_log
           ELSE IF callers[c].sync
           THEN /\ callers' = [callers EXCEPT ![c].pc = "flushing",
                                              ![c].run = StartRun(seg.version)]
                /\ flush_thread' = [joined EXCEPT !.lock = c]
                /\ flush_log' = <<>>
           ELSE /\ callers' = Return(c, FlushOk(
                        SpawnedReturn(cur, seg.version), "spawned"))
                /\ flush_thread' = [lock |-> None, handle |-> TRUE,
                                    thread |-> StartRun(seg.version)]
                /\ flush_log' = <<>>
        /\ UNCHANGED <<seg, last, persisted_version, disk, wal, shard>>

\* One step of flush_op for the run `run`: the next flusher in the order
\* (or its failure, which ends the run), then the store into
\* persisted_version, then the return of the closure.
RunStep(run, fail) ==
    LET order == FlushOrder(seg) IN
    IF run.k < Len(order)
    THEN IF fail
         THEN [run |-> [run EXCEPT !.status = "err"], disk |-> disk,
               persisted_version |-> persisted_version, log |-> flush_log]
         ELSE [run |-> [run EXCEPT !.k = @ + 1],
               disk |-> RunFlusher(order[run.k + 1], seg, disk, run.version),
               persisted_version |-> persisted_version,
               log |-> Append(flush_log, order[run.k + 1])]
    ELSE IF run.k = Len(order)
    THEN [run |-> [run EXCEPT !.k = @ + 1], disk |-> disk,
          persisted_version |-> run.version,
          log |-> Append(flush_log, FlushStep("persisted_version", ""))]
    ELSE [run |-> [run EXCEPT !.status = "ok"], disk |-> disk,
          persisted_version |-> persisted_version, log |-> flush_log]

\* flush_op run by the caller of flush(true); when it is over the caller
\* returns its result and the mutex guard is dropped.
SyncFlushStep ==
    \E c \in DOMAIN callers, fail \in BOOLEAN :
        LET r == RunStep(callers[c].run, fail) IN
        /\ callers[c].pc = "flushing"
        /\ (fail => callers[c].run.k < Len(FlushOrder(seg)))
        /\ disk' = r.disk
        /\ persisted_version' = r.persisted_version
        /\ flush_log' = r.log
        /\ IF r.run.status = "running"
           THEN /\ callers' = [callers EXCEPT ![c].run = r.run]
                /\ UNCHANGED flush_thread
           ELSE /\ callers' = Return(c,
                        IF r.run.status = "ok"
                        THEN FlushOk(unwrap_or(r.run.version, 0), "done")
                        ELSE FlushErr("done"))
                /\ flush_thread' = [flush_thread EXCEPT !.lock = None]
        /\ UNCHANGED <<seg, last, wal, shard>>

\* flush_op run by the background thread.
BackgroundFlushStep ==
    \E fail \in BOOLEAN :
        LET r == RunStep(flush_thread.thread, fail) IN
        /\ flush_thread.thread.status = "running"
        /\ (fail => flush_thread.thread.k < Len(FlushOrder(seg)))
        /\ disk' = r.disk
        /\ persisted_version' = r.persisted_version
        /\ flush_log' = r.log
        /\ flush_thread' = [flush_thread EXCEPT !.thread = r.run]
        /\ UNCHANGED <<seg, last, callers, wal, shard>>

\* ------------------------------------------ a segment with flush callers
FlushCallers == {1, 2}

FlushEnter ==
    \E c \in DOMAIN callers, sync \in BOOLEAN : FlushBegin(c, sync)

\* The caller has its result and leaves flush.
FlushLeave ==
    \E c \in DOMAIN callers :
        /\ callers[c].pc = "returned"
        /\ callers' = [callers EXCEPT ![c] = Idle]
        /\ UNCHANGED <<seg, last, persisted_version, disk, flush_thread,
                       flush_log, wal, shard>>

\* A mutation between flushes.  The flush protocol reads the versions
\* only, so the updates here are upserts of one point, at any op_num.
SegmentUpdate ==
    /\ AllIdle
    /\ \E n \in OpNums : Call(upsert_vector(seg, n, 1, 1, 0))

\* The process stops at any point and the segment is loaded again:
\* load_segment reads the state file and create_segment sets version and
\* persisted_version to its version, with no error and no flush thread.
Reload ==
    /\ seg' = load_segment(disk, seg)
    /\ last' = NoCall
    /\ persisted_version' = disk.state_version
    /\ flush_thread' = NoThread
    /\ callers' = [c \in DOMAIN callers |-> Idle]
    /\ flush_log' = <<>>
    /\ UNCHANGED <<disk, wal, shard>>

InitFlush == InitSegment([names |-> <<"a", "b">>, distance |-> "Dot"],
                         FlushCallers)

NextFlush ==
    \/ SegmentUpdate
    \/ FlushEnter
    \/ FlushCheckBackground
    \/ LockFlushing
    \/ SyncFlushStep
    \/ BackgroundFlushStep
    \/ FlushLeave
    \/ Reload

SpecFlush == InitFlush /\ [][NextFlush]_vars

\* ------------------------------------------------- a shard with its WAL
\* The operations the update handler writes to the WAL and applies.
WalOps ==
    {[kind |-> "upsert_vector", point |-> p, vec |-> v] :
        p \in PointIds, v \in Vecs}
        \cup {[kind |-> "set_payload", point |-> p, vec |-> None] :
                p \in PointIds}

\* CollectionUpdater::update of one WAL entry on the segment: op_num is
\* the index of the entry.
Apply(s, op_num, op) ==
    IF op.kind = "upsert_vector"
    THEN upsert_vector(s, op_num, op.point, op.vec, 0)
    ELSE set_payload(s, op_num, op.point, PayloadKeys, 0)

\* load_from_wal: every entry wal.read_all() yields, in order.
RECURSIVE Replay(_, _, _)
Replay(s, ops, from) ==
    IF from >= Len(ops) THEN s
    ELSE Replay(Apply(s, from, ops[from + 1]).seg, ops, from + 1)

\* An update: the entry is appended to the WAL and applied to the segment.
WalUpdate ==
    /\ AllIdle
    /\ Len(wal.ops) < MaxWal
    /\ \E op \in WalOps :
        LET r == Apply(seg, Len(wal.ops), op) IN
        /\ seg' = r.seg
        /\ last' = r.path
        /\ wal' = [wal EXCEPT !.ops = Append(@, op)]
    /\ UNCHANGED <<flushVars, shard>>

\* The flush worker's tick: flush(false) on the segment.
WalFlushEnter == \E c \in DOMAIN callers : FlushBegin(c, FALSE)

\* The flush worker acknowledges the version flush(false) returned: the
\* WAL drops the entries below it.  The flush that ends load_from_wal
\* acknowledges nothing.
WalFlushLeave ==
    \E c \in DOMAIN callers :
        /\ callers[c].pc = "returned"
        /\ callers' = [callers EXCEPT ![c] = Idle]
        /\ wal' = IF callers[c].ret.ok /\ ~callers[c].sync
                  THEN [wal EXCEPT !.first = max(@, callers[c].ret.val)]
                  ELSE wal
        /\ UNCHANGED <<seg, last, persisted_version, disk, flush_thread,
                       flush_log, shard>>

\* The process stops at any point and LocalShard::load runs: load_segment,
\* load_from_wal over the entries the WAL still holds, then flush_all(true),
\* which the caller goes on to run.
LoadShard ==
    /\ seg' = Replay(load_segment(disk, seg), wal.ops, wal.first)
    /\ last' = NoCall
    /\ persisted_version' = disk.state_version
    /\ flush_thread' = NoThread
    /\ callers' = [c \in DOMAIN callers |->
            [Idle EXCEPT !.pc = "proceed", !.sync = TRUE,
                         !.current_persisted_version = disk.state_version]]
    /\ flush_log' = <<>>
    /\ UNCHANGED <<disk, wal, shard>>

InitWal == InitSegment([names |-> <<"a">>, distance |-> "Dot"], {1})

NextWal ==
    \/ WalUpdate
    \/ WalFlushEnter
    \/ FlushCheckBackground
    \/ LockFlushing
    \/ SyncFlushStep
    \/ BackgroundFlushStep
    \/ WalFlushLeave
    \/ LoadShard

SpecWal == InitWal /\ [][NextWal]_vars

\* -------------------------------------------- a shard of several segments
\* LocalShard.segments is a SegmentHolder of MaxSegments plain appendable
\* segments; shard.stored is what the segments directory holds of each.
SegmentIds == 1..MaxSegments

\* The segments of the holder that hold point p.
Owners(h, p) == {i \in DOMAIN h : internal_id(h[i].id_tracker, p) # None}

\* random_appendable_segment: any segment that can take a new point.
AppendableSegments(h) ==
    {i \in DOMAIN h : internal_size(h[i].id_tracker) < MaxInternal}

\* The operations of a WAL entry.
ShardOps ==
    {[kind |-> "upsert_vector", point |-> p] : p \in PointIds}
        \cup {[kind |-> "delete_point", point |-> p] : p \in PointIds}
        \cup {[kind |-> "set_payload", point |-> p] : p \in PointIds}
        \cup {[kind |-> "create_field_index", point |-> None]}

\* One operation on one segment of the holder.
ApplySegment(s, op_num, op) ==
    IF op.kind = "upsert_vector"
    THEN upsert_vector(s, op_num, op.point, 1, 0).seg
    ELSE IF op.kind = "delete_point"
    THEN delete_point(s, op_num, op.point, 0).seg
    ELSE IF op.kind = "set_payload"
    THEN set_payload(s, op_num, op.point, PayloadKeys, 0).seg
    ELSE create_field_index(s, op_num, "k", FALSE, 0).seg

\* CollectionUpdater::update over the holder: a point operation goes to the
\* segments that hold the point (apply_points), an upsert of a point no
\* segment holds goes to the appendable segment `target`, a field index
\* operation goes to every segment.
ApplyHolder(h, op_num, op, target) ==
    IF op.point = None
    THEN [i \in DOMAIN h |-> ApplySegment(h[i], op_num, op)]
    ELSE IF Owners(h, op.point) # {}
    THEN [i \in DOMAIN h |->
            IF i \in Owners(h, op.point)
            THEN ApplySegment(h[i], op_num, op) ELSE h[i]]
    ELSE IF op.kind = "upsert_vector"
    THEN [h EXCEPT ![target] = ApplySegment(h[target], op_num, op)]
    ELSE h

\* The targets an operation can be given: a new point of an upsert needs an
\* appendable segment, every other operation takes none.
Targets(h, op) ==
    IF op.kind = "upsert_vector" /\ Owners(h, op.point) = {}
    THEN AppendableSegments(h) ELSE {1}

\* deduplicate_points that keeps the copy with the lowest internal version.
KeeperOfLowest(h, p) ==
    CHOOSE i \in Owners(h, p) :
        \A j \in Owners(h, p) :
            unwrap_or(point_version(h[i], p), 0)
                <= unwrap_or(point_version(h[j], p), 0)

\* deduplicate_points: of the segments that hold an id, the (first) one with
\* the highest internal version keeps it and the others drop it.
Keeper(h, p) ==
    CHOOSE i \in Owners(h, p) :
        /\ \A j \in Owners(h, p) :
            unwrap_or(point_version(h[j], p), 0)
                <= unwrap_or(point_version(h[i], p), 0)
        /\ \A j \in Owners(h, p) :
            point_version(h[j], p) = point_version(h[i], p) => i <= j

DropCopies(s, ps) ==
    [s EXCEPT
        !.payload = [i \in Offsets |->
            IF \E p \in ps : internal_id(s.id_tracker, p) = i
            THEN {} ELSE s.payload[i]],
        !.id_tracker =
            [@ EXCEPT
                !.e2i = [p \in PointIds |->
                    IF p \in ps THEN None ELSE s.id_tracker.e2i[p]],
                !.i2e = [i \in Offsets |->
                    IF s.id_tracker.i2e[i] \in ps THEN None
                    ELSE s.id_tracker.i2e[i]]]]

Duplicates(h, i) ==
    {p \in PointIds : i \in Owners(h, p) /\ Keeper(h, p) # i}

deduplicate_points(h) == [i \in DOMAIN h |-> DropCopies(h[i], Duplicates(h, i))]

\* The count deduplicate_points returns.
RECURSIVE Sum(_, _)
Sum(f, S) ==
    IF S = {} THEN 0
    ELSE LET x == CHOOSE y \in S : TRUE IN f[x] + Sum(f, S \ {x})

deduplicated(h) ==
    Sum([i \in DOMAIN h |-> Cardinality(Duplicates(h, i))], DOMAIN h)

\* What flush(true) of a segment leaves for load_segment to read.
StoredSegment(s) == [s EXCEPT !.error_status = NoError]

ReplayShard(segments, stored, phase, pos, once) ==
    [segments |-> segments, stored |-> stored, phase |-> phase,
     pos |-> pos, once |-> once]

\* An update on the running shard: written to the WAL and applied.
ShardUpdate ==
    /\ shard.phase = "live"
    /\ Len(wal.ops) < MaxWal
    /\ \E op \in ShardOps : \E target \in Targets(shard.segments, op) :
        /\ shard' = [shard EXCEPT !.segments =
                        ApplyHolder(@, Len(wal.ops), op, target)]
        /\ wal' = [wal EXCEPT !.ops = Append(@, op)]
    /\ UNCHANGED <<seg, last, flushVars>>

\* flush(true) of one segment of the holder.
ShardFlush ==
    /\ shard.phase = "live"
    /\ \E i \in SegmentIds :
        /\ shard.stored[i] # StoredSegment(shard.segments[i])
        /\ shard' = [shard EXCEPT
                        !.stored[i] = StoredSegment(shard.segments[i])]
    /\ UNCHANGED <<seg, last, flushVars, wal>>

\* The process stops and LocalShard::load runs: every stored segment is
\* loaded and added to the holder, deduplicate_points, then load_from_wal.
ShardLoad ==
    /\ shard.phase = "live"
    /\ shard' = [shard EXCEPT !.segments = deduplicate_points(shard.stored),
                              !.phase = "replay", !.pos = 0]
    /\ UNCHANGED <<seg, last, flushVars, wal>>

\* load_from_wal: the next entry of wal.read_all().
ReplayEntry ==
    /\ shard.phase \in {"replay", "again"}
    /\ shard.pos < Len(wal.ops)
    /\ \E target \in Targets(shard.segments, wal.ops[shard.pos + 1]) :
        shard' = [shard EXCEPT
            !.segments = ApplyHolder(@, shard.pos, wal.ops[shard.pos + 1],
                                     target),
            !.pos = @ + 1]
    /\ UNCHANGED <<seg, last, flushVars, wal>>

\* The entries are through: the WAL is applied once more, and then no more.
ReplayEnd ==
    /\ shard.phase \in {"replay", "again"}
    /\ shard.pos = Len(wal.ops)
    /\ shard' = IF shard.phase = "replay"
                THEN [shard EXCEPT !.phase = "again", !.pos = 0,
                                   !.once = shard.segments]
                ELSE [shard EXCEPT !.phase = "done"]
    /\ UNCHANGED <<seg, last, flushVars, wal>>

InitReplay ==
    LET config == [names |-> <<"a">>, distance |-> "Dot"]
        built == [i \in SegmentIds |-> NewSegment(None, config)]
    IN
    /\ InitSegmentOf(config, {})
    /\ shard = ReplayShard(built, built, "live", 0, built)

NextReplay ==
    \/ ShardUpdate
    \/ ShardFlush
    \/ ShardLoad
    \/ ReplayEntry
    \/ ReplayEnd

SpecReplay == InitReplay /\ [][NextReplay]_vars

\* --------------------------------------- the update channel of a shard
\* LocalShard.update_sender is an ArcSwap of the sender of the current
\* update channel; channel 1 is made by LocalShard::new, channel 2 by
\* on_optimizer_config_update.  Each channel has one update worker holding
\* its receiver.
Channels == {1, 2}
Producers == {1, 2}

Operation(n) == [kind |-> "Operation", op |-> n]
Stop == [kind |-> "Stop", op |-> 0]
Nop == [kind |-> "Nop", op |-> 0]
Plunger == [kind |-> "Plunger", op |-> 0]

\* The operations among the signals of a queue.
RECURSIVE OperationsOf(_)
OperationsOf(q) ==
    IF q = <<>> THEN {}
    ELSE (IF Head(q).kind = "Operation" THEN {Head(q).op} ELSE {})
            \cup OperationsOf(Tail(q))

HasPlunger(q) == \E j \in 1..Len(q) : q[j].kind = "Plunger"

\* Sender::send: an error once the receiver is dropped, else the signal is
\* queued as soon as the bounded channel has room.
ReceiverDropped(u, ch) == u.worker[ch] = "stopped"
CanSend(u, ch) == ReceiverDropped(u, ch) \/ Len(u.queue[ch]) < MaxQueue
Enqueue(u, ch, sig) ==
    IF ReceiverDropped(u, ch) THEN u
    ELSE [u EXCEPT !.queue[ch] = Append(@, sig)]

IdleProducer == [pc |-> "idle", sender |-> 0, op |-> 0]

\* create_snapshot, rx.await?: the worker has answered the plunger.
SnapshotReady(rx) == rx = "signalled"

InitUpdate ==
    /\ InitSegmentOf([names |-> <<"a">>, distance |-> "Dot"], {})
    /\ shard = [update_sender |-> 1,
                queue |-> [ch \in Channels |-> <<>>],
                worker |-> [ch \in Channels |->
                                IF ch = 1 THEN "running" ELSE "none"],
                producers |-> [p \in Producers |-> IdleProducer],
                next_op |-> 1,
                accepted |-> {}, failed |-> {}, processed |-> {},
                after_stop |-> FALSE,
                reconfig |-> "idle",
                snapshot |-> [pc |-> "idle", sender |-> 0, rx |-> "open",
                              before |-> {}]]

\* A producer of an update: self.update_sender.load() ...
ProducerLoad ==
    \E p \in Producers :
        /\ shard.producers[p].pc = "idle"
        /\ shard.next_op <= MaxSent
        /\ shard' = [shard EXCEPT
                !.producers[p] = [pc |-> "loaded",
                                  sender |-> shard.update_sender,
                                  op |-> shard.next_op],
                !.next_op = @ + 1]
        /\ UNCHANGED <<seg, last, flushVars, wal>>

\* ... .send(Operation).await on the sender it loaded.
ProducerSend ==
    \E p \in Producers :
        LET ch == shard.producers[p].sender
            n == shard.producers[p].op
            queued == Enqueue(shard, ch, Operation(n))
        IN
        /\ shard.producers[p].pc = "loaded"
        /\ CanSend(shard, ch)
        /\ shard' = [queued EXCEPT
                !.producers[p] = IdleProducer,
                !.accepted = IF ReceiverDropped(shard, ch)
                             THEN @ ELSE @ \cup {n},
                !.failed = IF ReceiverDropped(shard, ch)
                           THEN @ \cup {n} ELSE @,
                !.after_stop = @ \/ (~ReceiverDropped(shard, ch)
                    /\ \E j \in 1..Len(shard.queue[ch]) :
                            shard.queue[ch][j] = Stop)]
        /\ UNCHANGED <<seg, last, flushVars, wal>>

\* The update worker of a channel takes the next signal: an operation is
\* applied, a plunger is answered, Stop finishes the queued operations and
\* ends the worker (dropping the receiver and every plunger still queued).
UpdateWorker ==
    \E ch \in Channels :
        LET sig == Head(shard.queue[ch])
            rest == Tail(shard.queue[ch])
        IN
        /\ shard.worker[ch] = "running"
        /\ shard.queue[ch] # <<>>
        /\ shard' =
            IF sig.kind = "Operation"
            THEN [shard EXCEPT !.queue[ch] = rest,
                               !.processed = @ \cup {sig.op}]
            ELSE IF sig.kind = "Plunger"
            THEN [shard EXCEPT !.queue[ch] = rest,
                               !.snapshot.rx = "signalled"]
            ELSE IF sig.kind = "Stop"
            THEN [shard EXCEPT
                    !.queue[ch] = <<>>,
                    !.worker[ch] = "stopped",
                    !.processed = @ \cup OperationsOf(rest),
                    !.snapshot.rx = IF HasPlunger(rest) THEN "closed" ELSE @]
            ELSE [shard EXCEPT !.queue[ch] = rest]
        /\ UNCHANGED <<seg, last, flushVars, wal>>

\* on_optimizer_config_update: the new channel is made and its sender
\* swapped in.
ConfigSwap ==
    /\ shard.reconfig = "idle"
    /\ shard' = [shard EXCEPT !.update_sender = 2, !.reconfig = "swapped"]
    /\ UNCHANGED <<seg, last, flushVars, wal>>

\* old_sender.send(UpdateSignal::Stop).await
ConfigStop ==
    /\ shard.reconfig = "swapped"
    /\ CanSend(shard, 1)
    /\ shard' = [Enqueue(shard, 1, Stop) EXCEPT !.reconfig = "stopping"]
    /\ UNCHANGED <<seg, last, flushVars, wal>>

\* wait_workers_stops, then run_workers on the new receiver.
ConfigRestart ==
    /\ shard.reconfig = "stopping"
    /\ shard.worker[1] = "stopped"
    /\ shard' = [shard EXCEPT !.worker[2] = "running",
                              !.reconfig = "restarted"]
    /\ UNCHANGED <<seg, last, flushVars, wal>>

\* self.update_sender.load().send(UpdateSignal::Nop).await
ConfigNop ==
    /\ shard.reconfig = "restarted"
    /\ CanSend(shard, shard.update_sender)
    /\ shard' = [Enqueue(shard, shard.update_sender, Nop)
                    EXCEPT !.reconfig = "done"]
    /\ UNCHANGED <<seg, last, flushVars, wal>>

\* create_snapshot(save_wal = false): self.update_sender.load() ...
SnapshotLoad ==
    /\ shard.snapshot.pc = "idle"
    /\ shard' = [shard EXCEPT !.snapshot.pc = "loaded",
                              !.snapshot.sender = shard.update_sender]
    /\ UNCHANGED <<seg, last, flushVars, wal>>

\* ... .send(plunger).await?
SnapshotSend ==
    LET ch == shard.snapshot.sender IN
    /\ shard.snapshot.pc = "loaded"
    /\ CanSend(shard, ch)
    /\ shard' = IF ReceiverDropped(shard, ch)
                THEN [shard EXCEPT !.snapshot.pc = "error"]
                ELSE [Enqueue(shard, ch, Plunger) EXCEPT
                        !.snapshot.pc = "waiting",
                        !.snapshot.before = shard.accepted]
    /\ UNCHANGED <<seg, last, flushVars, wal>>

\* rx.await?, and then snapshot_all_segments under the read guard.
SnapshotStart ==
    /\ shard.snapshot.pc = "waiting"
    /\ SnapshotReady(shard.snapshot.rx) \/ shard.snapshot.rx = "closed"
    /\ shard' = [shard EXCEPT !.snapshot.pc =
                    IF shard.snapshot.rx = "closed" THEN "error"
                    ELSE "snapshotting"]
    /\ UNCHANGED <<seg, last, flushVars, wal>>

NextUpdate ==
    \/ ProducerLoad
    \/ ProducerSend
    \/ UpdateWorker
    \/ ConfigSwap
    \/ ConfigStop
    \/ ConfigRestart
    \/ ConfigNop
    \/ SnapshotLoad
    \/ SnapshotSend
    \/ SnapshotStart

SpecUpdate == InitUpdate /\ [][NextUpdate]_vars

\* ==================================================== the segments directory
\* The directory of a shard's segments on disk: build_segment filling a new
\* segment directory file by file, drop_data renaming and removing one, the
\* process stopping at any point, and LocalShard::load reading the directory.

\* The process stops at most this many times.
MaxStops == 2

\* The uuids build_segment draws for new segment directories.
SegmentDirs == {"u1", "u2"}

\* What a segment directory holds: the stores create_segment opens, the
\* state file and the version file.
Files == {"stores", "segment.json", ".version"}

\* One component of a path: its stem and its extension ("" when it has none).
Component(stem, ext) == [stem |-> stem, ext |-> ext]

\* A path is the sequence of its components.
segments_path == <<Component("segments", "")>>

\* Path::set_extension: the extension of the last component is replaced.
set_extension(path, ext) ==
    [path EXCEPT ![Len(path)] = Component(path[Len(path)].stem, ext)]

\* Path::ends_with: child's components are the last components of path,
\* compared component by component.
ends_with(path, child) ==
    /\ Len(child) <= Len(path)
    /\ SubSeq(path, Len(path) - Len(child) + 1, Len(path)) = child

\* The entries the segments directory can hold.
Entries ==
    {segments_path \o <<Component(u, e)>> :
        u \in SegmentDirs, e \in {"", "deleted"}}

NoDir == [exists |-> FALSE, files |-> {}]

\* SegmentVersion::check_exists
check_exists(d) == ".version" \in d.files

\* load_segment on a directory: Ok(None) without the version file, an error
\* when the state file cannot be read, the segment otherwise.
load_segment_entry(d) ==
    IF ~check_exists(d) THEN "none"
    ELSE IF "segment.json" \notin d.files THEN "err"
    ELSE "some"

\* The order in which build_segment fills the directory.
BuildVersionFirst == <<"dir", "stores", ".version", "segment.json">>

BuildOrder == <<"dir", "stores", "segment.json", ".version">>

InitDir ==
    /\ InitSegmentOf([names |-> <<"a">>, distance |-> "Dot"], {})
    /\ shard = [up |-> TRUE,
                fs |-> [p \in Entries |-> NoDir],
                holder |-> {},
                building |-> [u \in SegmentDirs |-> 0],
                dropping |-> {},
                stops |-> 0,
                stopped_build |-> {},
                stopped_drop |-> {},
                loads |-> 0]

\* build_segment, one step of it: create_dir_all, create_segment,
\* save_current_state, SegmentVersion::save; the segment is then handed to
\* the holder.
BuildSegment ==
    \E u \in SegmentDirs :
        LET p == segments_path \o <<Component(u, "")>>
            n == shard.building[u] + 1
        IN
        /\ shard.up
        /\ n <= Len(BuildOrder)
        /\ shard' = [shard EXCEPT
                !.building[u] = n,
                !.fs[p] = IF BuildOrder[n] = "dir"
                            THEN [exists |-> TRUE, files |-> {}]
                            ELSE [@ EXCEPT !.files = @ \cup {BuildOrder[n]}],
                !.holder = IF n = Len(BuildOrder) THEN @ \cup {p} ELSE @]
        /\ UNCHANGED <<seg, last, flushVars, wal>>

\* drop_data up to the rename: the segment is dropped from memory and its
\* directory renamed to <path>.deleted.
DropRename ==
    \E current_path \in shard.holder :
        LET deleted_path == set_extension(current_path, "deleted") IN
        /\ shard.up
        /\ shard' = [shard EXCEPT
                !.holder = @ \ {current_path},
                !.fs = [p \in Entries |->
                            IF p = deleted_path THEN shard.fs[current_path]
                            ELSE IF p = current_path THEN NoDir
                            ELSE shard.fs[p]],
                !.dropping = @ \cup {deleted_path}]
        /\ UNCHANGED <<seg, last, flushVars, wal>>

\* drop_data, remove_dir_all: the files go one by one in the order the
\* directory lists them, then the directory.
DropRemove ==
    \E deleted_path \in shard.dropping :
        /\ shard.up
        /\ IF shard.fs[deleted_path].files # {}
           THEN \E f \in shard.fs[deleted_path].files :
                    shard' = [shard EXCEPT
                        !.fs[deleted_path].files = @ \ {f}]
           ELSE shard' = [shard EXCEPT
                    !.fs[deleted_path] = NoDir,
                    !.dropping = @ \ {deleted_path}]
        /\ UNCHANGED <<seg, last, flushVars, wal>>

\* The process stops: what is in memory is gone, the directory stays as it
\* is.  stopped_build and stopped_drop keep which directories the stop found
\* inside build_segment and inside drop_data between rename and removal.
Stop_Process ==
    /\ shard.up
    /\ shard.stops < MaxStops
    /\ shard' = [shard EXCEPT
            !.up = FALSE,
            !.holder = {},
            !.building = [u \in SegmentDirs |->
                            IF @[u] = 0 THEN 0 ELSE Len(BuildOrder)],
            !.dropping = {},
            !.stops = @ + 1,
            !.stopped_build =
                {segments_path \o <<Component(u, "")>> : u \in
                    {v \in SegmentDirs :
                        /\ shard.building[v] > 0
                        /\ shard.building[v] < Len(BuildOrder)}},
            !.stopped_drop =
                {p \in shard.dropping : shard.fs[p].files = Files}]
    /\ UNCHANGED <<seg, last, flushVars, wal>>

\* LocalShard::load over the segments directory: an entry whose path ends
\* with "deleted" is removed; every other entry goes to load_segment and,
\* when that returns a segment, into the holder.  An error of load_segment
\* fails the load after the loop has run.
LocalShardLoad ==
    LET marked == {p \in Entries :
                        shard.fs[p].exists
                        /\ ends_with(p, <<Component("deleted", "")>>)}
        read == {p \in Entries : shard.fs[p].exists} \ marked
        failed == \E p \in read : load_segment_entry(shard.fs[p]) = "err"
    IN
    /\ ~shard.up
    /\ shard' = [shard EXCEPT
            !.fs = [p \in Entries |->
                        IF p \in marked THEN NoDir ELSE shard.fs[p]],
            !.holder = IF failed THEN {}
                       ELSE {p \in read : load_segment_entry(shard.fs[p]) = "some"},
            !.up = ~failed,
            !.loads = IF failed THEN @ ELSE @ + 1]
    /\ shard' # shard
    /\ UNCHANGED <<seg, last, flushVars, wal>>

NextDir ==
    \/ BuildSegment
    \/ DropRename
    \/ DropRemove
    \/ Stop_Process
    \/ LocalShardLoad

SpecDir == InitDir /\ [][NextDir]_vars

\* ============================================================ proxy segment
\* One segment of the holder under an optimizer: Original, then wrapped in
\* a ProxySegment while the replacement is built, then either replaced or,
\* on cancellation, reverted.

\* The updates that reach the segment.
ProxyOps ==
    {[kind |-> "upsert_vector", point |-> p, vec |-> v] :
        p \in PointIds, v \in Vecs}
        \cup {[kind |-> "delete_point", point |-> p, vec |-> None] :
                p \in PointIds}
        \cup {[kind |-> "set_payload", point |-> p, vec |-> None] :
                p \in PointIds}

\* One update on one segment.
ApplyOp(s, op_num, op) ==
    IF op.kind = "upsert_vector"
    THEN upsert_vector(s, op_num, op.point, op.vec, 0).seg
    ELSE ApplySegment(s, op_num, op)

\* The operations of a log applied in order, from entry k on.
RECURSIVE ApplyLog(_, _, _)
ApplyLog(s, log, k) ==
    IF k > Len(log) THEN s
    ELSE ApplyLog(ApplyOp(s, log[k].op_num, log[k].op), log, k + 1)

NoPoint == [vec |-> None, payload |-> {}]

\* What a read of a point on a segment returns.
PointData(s, p) ==
    LET i == internal_id(s.id_tracker, p) IN
    IF i = None THEN NoPoint
    ELSE [vec |-> s.vector_storage["a"][i], payload |-> s.payload[i]]

\* The mapping id -> (vector, payload) the updates describe.
Described(m, op) ==
    IF op.kind = "upsert_vector"
    THEN [m EXCEPT ![op.point] = [@ EXCEPT !.vec = op.vec]]
    ELSE IF op.kind = "delete_point"
    THEN [m EXCEPT ![op.point] = NoPoint]
    ELSE IF m[op.point] = NoPoint THEN m
    ELSE [m EXCEPT ![op.point] = [@ EXCEPT !.payload = @ \cup PayloadKeys]]

\* The operations the revert applies on top of S: the writes alone.
WritesOf(log) == SelectSeq(log, LAMBDA e : e.op.kind # "delete_point")

\* The operations the revert applies on top of S: those of the window.
RevertLog(log) == log

InitProxy ==
    LET config == [names |-> <<"a">>, distance |-> "Dot"] IN
    /\ InitSegmentOf(config, {})
    /\ shard = [kind |-> "Original",
                segment_type |-> "Plain",
                wrapped |-> NewSegment(None, config),
                write |-> NewSegment(None, config),
                deleted_points |-> {},
                log |-> <<>>,
                stopped |-> FALSE,
                op_num |-> 0,
                before |-> NewSegment(None, config),
                described |-> [p \in PointIds |-> NoPoint],
                outcome |-> "none"]

\* An update while the holder has the Original segment.
OriginalUpdate ==
    /\ shard.kind = "Original"
    /\ shard.outcome = "none"
    /\ shard.op_num < MaxWal
    /\ \E op \in ProxyOps :
        /\ HasRoom(shard.wrapped, op.point)
        /\ shard' = [shard EXCEPT
                !.wrapped = ApplyOp(@, shard.op_num, op),
                !.described = Described(@, op),
                !.op_num = @ + 1]
    /\ UNCHANGED <<seg, last, flushVars, wal>>

\* Steps 1 and 2: an empty write-segment W, the ProxySegment around S, and
\* the swap of S for the proxy in the holder.
ProxyStart ==
    /\ shard.kind = "Original"
    /\ shard.outcome = "none"
    /\ shard' = [shard EXCEPT
            !.kind = "Proxy",
            !.write = NewSegment(None, shard.wrapped.segment_config),
            !.deleted_points = {},
            !.log = <<>>,
            !.before = shard.wrapped]
    /\ UNCHANGED <<seg, last, flushVars, wal>>

\* Step 3, an update during the window: a write goes to W only, a delete is
\* recorded in deleted_points and applied to W.
ProxyUpdate ==
    /\ shard.kind = "Proxy"
    /\ shard.op_num < MaxWal
    /\ \E op \in ProxyOps :
        /\ HasRoom(shard.wrapped, op.point)
        /\ HasRoom(shard.write, op.point)
        /\ shard' = [shard EXCEPT
                !.write = ApplyOp(@, shard.op_num, op),
                !.deleted_points =
                    IF op.kind = "delete_point" THEN @ \cup {op.point} ELSE @,
                !.log = Append(@, [op_num |-> shard.op_num, op |-> op]),
                !.described = Described(@, op),
                !.op_num = @ + 1]
    /\ UNCHANGED <<seg, last, flushVars, wal>>

\* The shared stopped flag flips.
ProxyCancel ==
    /\ shard.kind = "Proxy"
    /\ ~shard.stopped
    /\ shard' = [shard EXCEPT !.stopped = TRUE]
    /\ UNCHANGED <<seg, last, flushVars, wal>>

\* Step 5, the revert: the proxy is swapped for S, W's operations are
\* applied on top of S, W is dropped.
ProxyRevert ==
    /\ shard.kind = "Proxy"
    /\ shard.stopped
    /\ shard' = [shard EXCEPT
            !.kind = "Original",
            !.wrapped = ApplyLog(@, RevertLog(shard.log), 1),
            !.write = NewSegment(None, shard.wrapped.segment_config),
            !.deleted_points = {},
            !.outcome = "reverted"]
    /\ UNCHANGED <<seg, last, flushVars, wal>>

\* Step 4, the build went through: the replacement built from S takes the
\* operations of W and the deleted points, and is swapped for the proxy.
ProxyFinish ==
    /\ shard.kind = "Proxy"
    /\ ~shard.stopped
    /\ shard' = [shard EXCEPT
            !.kind = "Original",
            !.segment_type = "Indexed",
            !.wrapped = ApplyLog(@, shard.log, 1),
            !.write = NewSegment(None, shard.wrapped.segment_config),
            !.deleted_points = {},
            !.outcome = "optimized"]
    /\ UNCHANGED <<seg, last, flushVars, wal>>

NextProxy ==
    \/ OriginalUpdate
    \/ ProxyStart
    \/ ProxyUpdate
    \/ ProxyCancel
    \/ ProxyRevert
    \/ ProxyFinish

SpecProxy == InitProxy /\ [][NextProxy]_vars

\* ============================================================= query_points
\* StructPayloadIndex::query_points over the segment of a holder that takes
\* updates and index changes.

\* The operations on the segment before a query.
MaxQueryOps == 4

\* Conditions of a filter: a match on the payload key, IsEmpty of the key,
\* HasId of a set of external ids.
Conditions ==
    {[kind |-> "Field", key |-> k, ids |-> {}] : k \in PayloadKeys}
        \cup {[kind |-> "IsEmpty", key |-> k, ids |-> {}] : k \in PayloadKeys}
        \cup {[kind |-> "HasId", key |-> "", ids |-> ids] :
                ids \in (SUBSET PointIds) \ {{}}}

\* Filter {must, should, must_not}, each of at most two conditions.
Clauses == {cs \in SUBSET Conditions : Cardinality(cs) <= 2}

Filters ==
    {[must |-> m, should |-> sh, must_not |-> mn] :
        m \in Clauses, sh \in Clauses,
        mn \in {cs \in Clauses : Cardinality(cs) <= 1}}

\* An iterator over a set of offsets, in ascending order.
RECURSIVE Ascending(_)
Ascending(S) ==
    IF S = {} THEN <<>>
    ELSE LET i == CHOOSE x \in S : \A y \in S : x <= y
         IN <<i>> \o Ascending(S \ {i})

\* id_tracker.iter_ids: the offsets that have an external id.
iter_ids(s) == Ascending({i \in Offsets : external_id(s.id_tracker, i) # None})

\* The condition on one offset.
check_condition(s, i, c) ==
    IF c.kind = "Field" THEN c.key \in s.payload[i]
    ELSE IF c.kind = "IsEmpty" THEN c.key \notin s.payload[i]
    ELSE external_id(s.id_tracker, i) \in c.ids

\* filter_context(F).check
check(s, i, F) ==
    /\ \A c \in F.must : check_condition(s, i, c)
    /\ F.should # {} => \E c \in F.should : check_condition(s, i, c)
    /\ \A c \in F.must_not : ~check_condition(s, i, c)

\* query_field: the offsets the index of the key holds for the condition,
\* None without an index.  The index holds what assign, delete and drop
\* left in it and what build_field_indexes read from the payload storage.
query_field(s, c) ==
    IF c.key \in s.payload_index.field_indexes
    THEN [some |-> TRUE,
          ids |-> Ascending({i \in Offsets : c.key \in s.payload[i]})]
    ELSE [some |-> FALSE, ids |-> <<>>]

\* condition_cardinality, the primary clauses of one condition: none for a
\* field without an index.
condition_clauses(s, c) ==
    IF c.kind = "Field"
    THEN IF c.key \in s.payload_index.field_indexes
         THEN <<[kind |-> "Condition", cond |-> c, ids |-> {}]>>
         ELSE <<>>
    ELSE IF c.kind = "IsEmpty"
    THEN <<[kind |-> "IsEmpty", cond |-> c, ids |-> {}]>>
    ELSE <<[kind |-> "Ids", cond |-> c,
            ids |-> {internal_id(s.id_tracker, p) : p \in c.ids} \ {None}]>>

\* The conditions of a set in a fixed order.
RECURSIVE InOrder(_)
InOrder(cs) ==
    IF cs = {} THEN <<>>
    ELSE LET c == CHOOSE x \in cs : TRUE IN <<c>> \o InOrder(cs \ {c})

RECURSIVE Concat(_)
Concat(seqs) ==
    IF seqs = <<>> THEN <<>> ELSE Head(seqs) \o Concat(Tail(seqs))

\* estimate_cardinality(F).primary_clauses: the clauses of a must condition
\* that has some; else those of all should conditions when each has some;
\* else none.
primary_clauses(s, F) ==
    LET enumerable == {c \in F.must : condition_clauses(s, c) # <<>>} IN
    IF enumerable # {}
    THEN condition_clauses(s, CHOOSE c \in enumerable : TRUE)
    ELSE IF F.should # {}
            /\ \A c \in F.should : condition_clauses(s, c) # <<>>
    THEN LET cs == InOrder(F.should) IN
         Concat([k \in 1..Len(cs) |-> condition_clauses(s, cs[k])])
    ELSE <<>>

\* The iterator of one primary clause.
clause_ids(s, clause) ==
    IF clause.kind = "Condition"
    THEN IF query_field(s, clause.cond).some
         THEN query_field(s, clause.cond).ids
         ELSE iter_ids(s)
    ELSE IF clause.kind = "Ids" THEN Ascending(clause.ids)
    ELSE iter_ids(s)

\* A pass that lets every candidate through.
AllPass(ids) == ids

\* visited_list.check_and_update_visited: the first occurrence of an offset
\* passes, the later ones do not.
RECURSIVE Unvisited(_)
Unvisited(ids) ==
    IF ids = <<>> THEN <<>>
    ELSE LET front == Unvisited(SubSeq(ids, 1, Len(ids) - 1))
             i == ids[Len(ids)]
         IN IF \E k \in 1..Len(front) : front[k] = i THEN front
            ELSE Append(front, i)

query_points(s, F) ==
    LET clauses == primary_clauses(s, F) IN
    IF clauses = <<>>
    THEN SelectSeq(iter_ids(s), LAMBDA i : check(s, i, F))
    ELSE SelectSeq(
            Unvisited(Concat([k \in 1..Len(clauses) |->
                                clause_ids(s, clauses[k])])),
            LAMBDA i : check(s, i, F))

InitQuery ==
    LET config == [names |-> <<"a">>, distance |-> "Dot"] IN
    /\ InitSegmentOf(config, {})
    /\ shard = [segment |-> NewSegment(None, config), op_num |-> 0]

\* upsert_vector, delete_point or set_payload of a point.
QueryUpdate ==
    /\ shard.op_num < MaxQueryOps
    /\ \E op \in ProxyOps :
        /\ HasRoom(shard.segment, op.point)
        /\ shard' = [segment |-> ApplyOp(shard.segment, shard.op_num, op),
                     op_num |-> shard.op_num + 1]
    /\ UNCHANGED <<seg, last, flushVars, wal>>

\* delete_payload of the key of a point.
QueryDeletePayload ==
    /\ shard.op_num < MaxQueryOps
    /\ \E p \in PointIds, key \in PayloadKeys :
        shard' = [segment |->
                    delete_payload(shard.segment, shard.op_num, p, key, 0).seg,
                  op_num |-> shard.op_num + 1]
    /\ UNCHANGED <<seg, last, flushVars, wal>>

\* create_field_index or delete_field_index of the key.
QueryIndex ==
    /\ shard.op_num < MaxQueryOps
    /\ \E key \in PayloadKeys, create \in BOOLEAN :
        shard' = [segment |->
                    IF create
                    THEN create_field_index(shard.segment, shard.op_num,
                                            key, TRUE, 0).seg
                    ELSE delete_field_index(shard.segment, shard.op_num,
                                            key, 0).seg,
                  op_num |-> shard.op_num + 1]
    /\ UNCHANGED <<seg, last, flushVars, wal>>

NextQuery ==
    \/ QueryUpdate
    \/ QueryDeletePayload
    \/ QueryIndex

SpecQuery == InitQuery /\ [][NextQuery]_vars

\* ========================================================= segment snapshot
\* take_snapshot of a segment, restore_snapshot of the archive next to it,
\* and load_segment of the restored directory.

\* The flushers of a flush(true), run one after the other from step k on.
RECURSIVE RunFlushers(_, _, _, _, _)
RunFlushers(steps, k, s, d, state_version) ==
    IF k > Len(steps) THEN d
    ELSE RunFlushers(steps, k + 1, s,
                     RunFlusher(steps[k], s, d, state_version), state_version)

\* flush(true) with no background flush in flight: nothing for an empty or
\* an already flushed segment, the whole flush_op otherwise.
flush_sync(s, d, current_persisted_version) ==
    IF s.version = None \/ AlreadyFlushed(s.version, current_persisted_version)
    THEN [disk |-> d, persisted_version |-> current_persisted_version]
    ELSE [disk |-> RunFlushers(FlushOrder(s), 1, s, d, s.version),
          persisted_version |-> s.version]

\* rocksdb_backup::create: the backup holds what the database holds, the
\* columns of the id tracker, the vector storages and the payload storage.
rocksdb_backup_create(s, d) ==
    [d EXCEPT !.mapping = s.id_tracker.e2i,
              !.vectors = s.vector_storage,
              !.payload = s.payload,
              !.versions = [p \in PointIds |-> point_version(s, p)]]

NoSnapshotDir ==
    [exists |-> FALSE, db_backup |-> EmptyDisk, state_version |-> None,
     version_file |-> FALSE]

\* A segment directory: the database and segment.json (top), the version
\* file, and the snapshot/ directory an unpacked archive brings.
SegmentDir(top, version_file, snapshot) ==
    [top |-> top, version_file |-> version_file, snapshot |-> snapshot]

\* take_snapshot after its flush: db_backup and the files under the
\* snapshot/ prefix, segment.json and the version file among them.
take_snapshot(s, d) ==
    SegmentDir(EmptyDisk, FALSE,
               [exists |-> TRUE,
                db_backup |-> rocksdb_backup_create(s, d),
                state_version |-> d.state_version,
                version_file |-> TRUE])

\* A plain archive of the segment directory, as the legacy format has it.
legacy_archive(d) == SegmentDir(d, TRUE, NoSnapshotDir)

\* A restore that leaves the files under snapshot/files.
MoveNone(dir) ==
    [dir EXCEPT !.top = [dir.snapshot.db_backup EXCEPT !.state_version = None]]

\* rocksdb_backup::restore into the segment directory and move_all of
\* snapshot/files into it.
move_all(dir) ==
    [dir EXCEPT !.top = [dir.snapshot.db_backup EXCEPT
                            !.state_version = dir.snapshot.state_version],
                !.version_file = dir.snapshot.version_file]

\* restore_snapshot on the unpacked archive: with a snapshot/ directory the
\* database is restored, the files are moved and snapshot/ is removed; a
\* legacy archive is left as unpacked.
restore_snapshot(unpacked) ==
    IF unpacked.snapshot.exists
    THEN [move_all(unpacked) EXCEPT !.snapshot = NoSnapshotDir]
    ELSE unpacked

points_count(s) ==
    Cardinality({p \in PointIds : internal_id(s.id_tracker, p) # None})

InitSnapshot ==
    LET config == [names |-> <<"a">>, distance |-> "Dot"] IN
    /\ InitSegmentOf(config, {})
    /\ shard = [segment |-> NewSegment(None, config),
                disk |-> EmptyDisk,
                persisted_version |-> None,
                ops |-> 0,
                phase |-> "live",
                archive |-> SegmentDir(EmptyDisk, FALSE, NoSnapshotDir),
                dir |-> SegmentDir(EmptyDisk, FALSE, NoSnapshotDir),
                restored |-> NewSegment(None, config)]

\* An update of the segment, several of them under one operation number
\* when they come from one batch.
SnapshotUpdate ==
    /\ shard.phase = "live"
    /\ shard.ops < MaxWal
    /\ \E op \in ProxyOps, n \in OpNums :
        /\ HasRoom(shard.segment, op.point)
        /\ n >= unwrap_or(shard.segment.version, 0)
        /\ shard' = [shard EXCEPT
                !.segment = ApplyOp(@, n, op),
                !.ops = @ + 1]
    /\ UNCHANGED <<seg, last, flushVars, wal>>

\* flush(true) of the segment.
SnapshotFlush ==
    /\ shard.phase = "live"
    /\ LET f == flush_sync(shard.segment, shard.disk, shard.persisted_version)
       IN /\ f.disk # shard.disk
          /\ shard' = [shard EXCEPT
                !.disk = f.disk, !.persisted_version = f.persisted_version]
    /\ UNCHANGED <<seg, last, flushVars, wal>>

\* take_snapshot: flush(true), then the archive.
TakeSnapshot ==
    /\ shard.phase = "live"
    /\ LET f == flush_sync(shard.segment, shard.disk, shard.persisted_version)
       IN shard' = [shard EXCEPT
                !.disk = f.disk, !.persisted_version = f.persisted_version,
                !.archive = take_snapshot(shard.segment, f.disk),
                !.phase = "archived"]
    /\ UNCHANGED <<seg, last, flushVars, wal>>

\* An archive in the legacy format, of the segment directory as flushed.
TakeLegacyArchive ==
    /\ shard.phase = "live"
    /\ shard' = [shard EXCEPT
            !.archive = legacy_archive(shard.disk),
            !.phase = "archived"]
    /\ UNCHANGED <<seg, last, flushVars, wal>>

\* restore_snapshot: the archive is unpacked into <parent>/<segment_id>.
RestoreSnapshot ==
    /\ shard.phase = "archived"
    /\ shard' = [shard EXCEPT
            !.dir = restore_snapshot(shard.archive),
            !.phase = "restored"]
    /\ UNCHANGED <<seg, last, flushVars, wal>>

\* load_segment of the restored directory.
LoadRestored ==
    /\ shard.phase = "restored"
    /\ shard' = [shard EXCEPT
            !.restored = IF shard.dir.version_file
                         THEN load_segment(shard.dir.top, shard.segment)
                         ELSE @,
            !.phase = IF shard.dir.version_file THEN "loaded" ELSE "skipped"]
    /\ UNCHANGED <<seg, last, flushVars, wal>>

NextSnapshot ==
    \/ SnapshotUpdate
    \/ SnapshotFlush
    \/ TakeSnapshot
    \/ TakeLegacyArchive
    \/ RestoreSnapshot
    \/ LoadRestored

SpecSnapshot == InitSnapshot /\ [][NextSnapshot]_vars

\* ============================================================ segment search
\* search, search_batch, vector and read_filtered of a segment that takes
\* updates, whose id tracker can lose an external id on its own (as in
\* test_check_consistency), and check_consistency_and_repair.

\* The updates before a search, and the largest `top` of a search.
MaxSearchOps == 3
MaxTop == 2

\* The vector names a search may give: "a" is configured, "b" is not.
SearchNames == {"a", "b"}
Tops == 0..MaxTop

\* Option<&Filter>: no filter, a match on the key, or its negation.
NoFilter == [must |-> {}, should |-> {}, must_not |-> {}]
SearchFilters ==
    {NoFilter}
        \cup {[NoFilter EXCEPT !.must = {c}] :
                c \in {x \in Conditions : x.kind = "Field"}}
        \cup {[NoFilter EXCEPT !.must_not = {c}] :
                c \in {x \in Conditions : x.kind = "Field"}}

\* OperationResult<Vec<_>>
SearchOk(points) == [ok |-> TRUE, err |-> "none", points |-> points]
SearchErr(e) == [ok |-> FALSE, err |-> e, points |-> <<>>]

\* ScoredPointOffset {idx, score}; the score of the Dot distance.
ScoredPointOffset(idx, score) == [idx |-> idx, score |-> score]
similarity(query, stored) == query * stored

\* The best `top` of a set of scored offsets, the higher score first and the
\* lower offset first among equal scores.
RECURSIVE peek_top(_, _)
peek_top(scored, top) ==
    IF top = 0 \/ scored = {} THEN <<>>
    ELSE LET best == CHOOSE x \in scored : \A y \in scored :
                        \/ x.score > y.score
                        \/ (x.score = y.score /\ x.idx <= y.idx)
         IN <<best>> \o peek_top(scored \ {best}, top - 1)

\* VectorIndex::search of the Plain index for one query: the stored vectors
\* that pass the filter are scored and the best `top` returned.  `unlinked`
\* says whether the index also scores the offsets the id tracker has no
\* external id for.
index_search(s, unlinked, name, query, F, top) ==
    LET candidates ==
            {i \in Offsets :
                /\ s.vector_storage[name][i] # None
                /\ unlinked \/ external_id(s.id_tracker, i) # None
                /\ check(s, i, F)}
    IN peek_top({ScoredPointOffset(i, similarity(query, s.vector_storage[name][i])) :
                    i \in candidates}, top)

\* The names of the configured vectors.
vector_names(s) == {s.segment_config.names[k] : k \in DOMAIN s.segment_config.names}

\* ScoredPoint {id, version, score, payload, vector}
ScoredPoint(s, sp, with_payload, with_vector) ==
    [id |-> external_id(s.id_tracker, sp.idx),
     version |-> internal_version(s.id_tracker, sp.idx),
     score |-> sp.score,
     payload |-> [some |-> with_payload,
                  val |-> IF with_payload THEN s.payload[sp.idx] ELSE {}],
     vector |-> [some |-> with_vector,
                 val |-> [n \in vector_names(s) |->
                            IF with_vector THEN s.vector_storage[n][sp.idx]
                            ELSE None]]]

\* A process_search_result that keeps the offsets without an external id.
KeepUnlinked(s, internal_result) == internal_result

\* The filter_map of process_search_result: an offset without an external
\* id is skipped with a warning.
SkipUnlinked(s, internal_result) ==
    SelectSeq(internal_result,
              LAMBDA sp : external_id(s.id_tracker, sp.idx) # None)

\* process_search_result: the offsets with an external id, each with its
\* version (a service error if the id tracker has none) and hydrated as
\* with_payload and with_vector say.
process_search_result(s, internal_result, with_payload, with_vector) ==
    LET linked == SkipUnlinked(s, internal_result) IN
    IF \E k \in DOMAIN linked :
            internal_version(s.id_tracker, linked[k].idx) = None
    THEN SearchErr("ServiceError")
    ELSE SearchOk([k \in DOMAIN linked |->
                    ScoredPoint(s, linked[k], with_payload, with_vector)])

\* search: the name and the dimension are checked, the index searched for
\* the one query and its result processed.
search(s, unlinked, name, query, with_payload, with_vector, F, top) ==
    IF name \notin vector_names(s) THEN SearchErr("WrongVectorName")
    ELSE IF query = WrongDim THEN SearchErr("WrongVector")
    ELSE process_search_result(
            s, index_search(s, unlinked, name, query, F, top),
            with_payload, with_vector)

\* A dimension check of search_batch that looks at the first query only.
FirstWrongDim(queries) == queries # <<>> /\ queries[1] = WrongDim

\* The dimension check of search_batch: any query of the wrong length.
AnyWrongDim(queries) == \E k \in DOMAIN queries : queries[k] = WrongDim

\* search_batch: the checks of search for every query, then the index
\* searched for all queries and every result processed; the first error of
\* a result is the error of the batch.
search_batch(s, unlinked, name, queries, with_payload, with_vector, F, top) ==
    IF name \notin vector_names(s) THEN [ok |-> FALSE, err |-> "WrongVectorName", results |-> <<>>]
    ELSE IF AnyWrongDim(queries)
    THEN [ok |-> FALSE, err |-> "WrongVector", results |-> <<>>]
    ELSE LET res == [k \in DOMAIN queries |->
                        process_search_result(
                            s, index_search(s, unlinked, name, queries[k], F, top),
                            with_payload, with_vector)]
         IN IF \E k \in DOMAIN res : ~res[k].ok
            THEN [ok |-> FALSE, err |-> "ServiceError", results |-> <<>>]
            ELSE [ok |-> TRUE, err |-> "none",
                  results |-> [k \in DOMAIN res |-> res[k].points]]

\* lookup_internal_id and vector(name, point_id)
lookup_internal_id(s, point_id) ==
    IF internal_id(s.id_tracker, point_id) = None
    THEN [ok |-> FALSE, err |-> "PointIdError", missed_point_id |-> point_id,
          val |-> None]
    ELSE [ok |-> TRUE, err |-> "none", missed_point_id |-> None,
          val |-> internal_id(s.id_tracker, point_id)]

vector(s, name, point_id) ==
    LET i == lookup_internal_id(s, point_id) IN
    IF ~i.ok THEN i
    ELSE IF name \notin vector_names(s)
    THEN [i EXCEPT !.ok = FALSE, !.err = "WrongVectorName", !.val = None]
    ELSE IF external_id(s.id_tracker, i.val) = None
    THEN [i EXCEPT !.ok = FALSE, !.err = "ServiceError", !.val = None]
    ELSE [i EXCEPT !.val = s.vector_storage[name][i.val]]

\* check_consistency_and_repair: the offsets the id tracker iterates that
\* have no external id lose their payload, and the segment is flushed if
\* there was one.  `dangling` says whether the iteration of the id tracker
\* yields such offsets.
check_consistency_and_repair(s, dangling, d, current_persisted_version) ==
    LET internal_ids_to_delete ==
            {i \in Offsets :
                /\ dangling
                /\ i < internal_size(s.id_tracker)
                /\ external_id(s.id_tracker, i) = None}
        repaired == [s EXCEPT !.payload =
                        [i \in Offsets |->
                            IF i \in internal_ids_to_delete THEN {} ELSE @[i]]]
    IN IF internal_ids_to_delete = {}
       THEN [seg |-> s, disk |-> d,
             persisted_version |-> current_persisted_version]
       ELSE [seg |-> repaired] @@
            flush_sync(repaired, d, current_persisted_version)

\* ------------------------------------------------------------ read_filtered
\* iter_from of an iterator that does not skip to the offset.
IterAll(t, offset) ==
    Ascending({p \in PointIds : internal_id(t, p) # None})

\* id_tracker.iter_from(offset): the external ids the tracker maps, in
\* ascending order from the offset on (from the first without an offset).
iter_from(t, offset) ==
    Ascending({p \in PointIds :
                /\ internal_id(t, p) # None
                /\ offset = None \/ p >= offset})

\* Iterator::take(limit.unwrap_or(usize::MAX))
take(ids, limit) ==
    IF limit = None \/ limit >= Len(ids) THEN ids ELSE SubSeq(ids, 1, limit)

\* CardinalityEstimation {exp, max} of estimate_cardinality, for any filter.
Estimations == {est \in [exp : 0..MaxPoints, max : 0..MaxPoints] : est.exp <= est.max}

\* A sequence of ids in ascending order, every occurrence kept.
RECURSIVE SortedSeq(_)
SortedSeq(q) ==
    IF q = <<>> THEN <<>>
    ELSE LET k == CHOOSE j \in DOMAIN q : \A i \in DOMAIN q : q[j] <= q[i]
             rest == [i \in 1..(Len(q) - 1) |->
                        IF i < k THEN q[i] ELSE q[i + 1]]
         IN <<q[k]>> \o SortedSeq(rest)

\* A page left in the order the index gave it.
KeepOrder(page) == page

\* page.sort_unstable()
sort_unstable(page) == SortedSeq(page)

\* peek_top_smallest_iterable(ids, limit): the `limit` smallest ids.
peek_top_smallest_iterable(ids, limit) == take(SortedSeq(ids), limit)

\* filtered_read_by_index: the offsets of query_points, each mapped to its
\* external id (an offset without one is left out, and so is an id before
\* the offset), the smallest `limit` of them, sorted.
filtered_read_by_index(s, offset, limit, F) ==
    LET found == query_points(s, F)
        external == [k \in DOMAIN found |-> external_id(s.id_tracker, found[k])]
        ids_iterator ==
            SelectSeq(external,
                      LAMBDA p : p # None /\ (offset = None \/ p >= offset))
        page == IF limit # None
                THEN peek_top_smallest_iterable(ids_iterator, limit)
                ELSE ids_iterator
    IN sort_unstable(page)

\* filtered_read_by_id_stream: the ids of iter_from whose offset passes the
\* filter, up to `limit` of them.
filtered_read_by_id_stream(s, offset, limit, F) ==
    take(SelectSeq(iter_from(s.id_tracker, offset),
                   LAMBDA p : check(s, internal_id(s.id_tracker, p), F)),
         limit)

\* read_filtered(offset, limit, filter): without a filter the ids of
\* iter_from up to the limit; with one, the strategy that the estimated
\* cardinality `est` of the filter makes the cheaper.
read_filtered(s, offset, limit, filter, est) ==
    IF ~filter.some THEN take(iter_from(s.id_tracker, offset), limit)
    ELSE LET total_points == points_count(s) + 1
             exp_stream_checks ==
                (unwrap_or(limit, total_points) * total_points) \div (est.exp + 1)
             exp_index_checks == est.max
         IN IF exp_stream_checks > exp_index_checks
            THEN filtered_read_by_index(s, offset, limit, filter.F)
            ELSE filtered_read_by_id_stream(s, offset, limit, filter.F)

NoDrop == [some |-> FALSE, point_id |-> None]

InitSearch ==
    LET config == [names |-> <<"a">>, distance |-> "Dot"] IN
    /\ InitSegmentOf(config, {})
    /\ \E unlinked \in BOOLEAN, dangling \in BOOLEAN :
        shard = [segment |-> NewSegment(None, config),
                 disk |-> EmptyDisk,
                 persisted_version |-> None,
                 op_num |-> 0,
                 unlinked |-> unlinked,
                 dangling |-> dangling,
                 before |-> NewSegment(None, config),
                 dropped |-> NoDrop,
                 repaired |-> FALSE]

\* upsert_vector, delete_point or set_payload of a point.
SearchUpdate ==
    /\ shard.op_num < MaxSearchOps
    /\ \E op \in ProxyOps :
        /\ HasRoom(shard.segment, op.point)
        /\ shard' = [shard EXCEPT
                !.segment = ApplyOp(@, shard.op_num, op),
                !.op_num = @ + 1,
                !.before = NewSegment(None, shard.segment.segment_config),
                !.dropped = NoDrop,
                !.repaired = FALSE]
    /\ UNCHANGED <<seg, last, flushVars, wal>>

\* id_tracker.drop(e) alone, which leaves the vector and the payload of the
\* offset behind.
IdTrackerDrop ==
    /\ \E e \in PointIds :
        /\ internal_id(shard.segment.id_tracker, e) # None
        /\ shard' = [shard EXCEPT
                !.before = shard.segment,
                !.segment.id_tracker = drop(@, e),
                !.dropped = [some |-> TRUE, point_id |-> e],
                !.repaired = FALSE]
    /\ UNCHANGED <<seg, last, flushVars, wal>>

CheckConsistencyAndRepair ==
    /\ LET r == check_consistency_and_repair(
                    shard.segment, shard.dangling, shard.disk,
                    shard.persisted_version)
       IN shard' = [shard EXCEPT
                !.segment = r.seg,
                !.disk = r.disk,
                !.persisted_version = r.persisted_version,
                !.repaired = TRUE]
    /\ UNCHANGED <<seg, last, flushVars, wal>>

NextSearch ==
    \/ SearchUpdate
    \/ IdTrackerDrop
    \/ CheckConsistencyAndRepair

SpecSearch == InitSearch /\ [][NextSearch]_vars

\* ========================================================= segment creation
\* create_segment (through build_segment and load_segment) for every index
\* and storage type, and the operations on the segment it returns.

\* The operations on a created segment.
MaxCreateOps == 2

Indexes == {"Plain", "Hnsw"}
StorageTypes == {"InMemory", "Mmap"}

\* An appendable_flag that looks at the index alone.
PlainOnly(segment_type, storage_type) == segment_type = "Plain"

\* appendable_flag of create_segment
appendable(segment_type, storage_type) ==
    segment_type = "Plain" /\ storage_type = "InMemory"

\* create_segment(version, path, config): the stores opened on the columns
\* of the directory, the segment type of the index and the appendable flag.
create_segment(version, d, config) ==
    LET segment_type == IF config.index = "Plain" THEN "Plain" ELSE "Indexed"
    IN [segment |-> [load_segment(d, NewSegment(version, config))
                        EXCEPT !.version = version],
        segment_type |-> segment_type,
        appendable_flag |-> appendable(segment_type, config.storage_type)]

\* build_segment: create_segment(None, ..) in a new directory, then the
\* state file with the config.
build_segment(config) ==
    create_segment(None, EmptyDisk, config) @@
        [disk |-> EmptyDisk, persisted_version |-> None,
         state |-> [version |-> None, config |-> config],
         ops |-> 0, panicked |-> FALSE]

InitCreate ==
    /\ InitSegmentOf([names |-> <<"a">>, distance |-> "Dot"], {})
    /\ \E index \in Indexes, storage_type \in StorageTypes, debug \in BOOLEAN :
        shard = build_segment([names |-> <<"a">>, distance |-> "Dot",
                               index |-> index,
                               storage_type |-> storage_type])
                    @@ [debug |-> debug]

\* upsert_vector, delete_point or set_payload of a point.  upsert_vector
\* starts with debug_assert!(self.is_appendable()), which panics in a debug
\* build and is not there in a release build.
CreateUpdate ==
    /\ ~shard.panicked
    /\ shard.ops < MaxCreateOps
    /\ \E op \in ProxyOps :
        /\ HasRoom(shard.segment, op.point)
        /\ IF op.kind = "upsert_vector" /\ shard.debug /\ ~shard.appendable_flag
           THEN shard' = [shard EXCEPT !.panicked = TRUE]
           ELSE shard' = [shard EXCEPT
                    !.segment = ApplyOp(@, shard.ops, op),
                    !.ops = @ + 1]
    /\ UNCHANGED <<seg, last, flushVars, wal>>

\* create_field_index or delete_field_index of the key.
CreateIndex ==
    /\ ~shard.panicked
    /\ shard.ops < MaxCreateOps
    /\ \E key \in PayloadKeys, create \in BOOLEAN :
        shard' = [shard EXCEPT
            !.segment = IF create
                        THEN create_field_index(@, shard.ops, key, TRUE, 0).seg
                        ELSE delete_field_index(@, shard.ops, key, 0).seg,
            !.ops = @ + 1]
    /\ UNCHANGED <<seg, last, flushVars, wal>>

\* flush(true): the stores, then the state file with the version and the
\* config of the segment.
CreateFlush ==
    /\ ~shard.panicked
    /\ LET f == flush_sync(shard.segment, shard.disk, shard.persisted_version)
       IN /\ f.disk # shard.disk
          /\ shard' = [shard EXCEPT
                !.disk = f.disk,
                !.persisted_version = f.persisted_version,
                !.state = [version |-> f.disk.state_version,
                           config |-> shard.segment.segment_config]]
    /\ UNCHANGED <<seg, last, flushVars, wal>>

\* load_segment: create_segment(state.version, path, state.config) on the
\* directory, also after a panic.
CreateLoad ==
    /\ LET loaded == create_segment(shard.state.version, shard.disk,
                                    shard.state.config)
           kept == [loaded.segment EXCEPT
                        !.payload_index =
                            [config |-> shard.segment.payload_index.config,
                             field_indexes |-> shard.segment.payload_index.config]]
       IN shard' = [shard EXCEPT
                !.segment = kept,
                !.segment_type = loaded.segment_type,
                !.appendable_flag = loaded.appendable_flag,
                !.persisted_version = shard.state.version,
                !.panicked = FALSE]
    /\ UNCHANGED <<seg, last, flushVars, wal>>

NextCreate ==
    \/ CreateUpdate
    \/ CreateIndex
    \/ CreateFlush
    \/ CreateLoad

SpecCreate == InitCreate /\ [][NextCreate]_vars

\* ===================================================== schema inference
\* create_field_index without a schema over payloads whose values of the
\* key have a type: shard.values holds, for every offset, what the payload
\* storage has for the key ("none": no payload stored for the offset,
\* "empty": a payload without the key, or the type of the value).

\* The operations before a create_field_index.
MaxInferOps == 5

ValueTypes == {"keyword", "integer"}

\* infer_value_type of payload.get_value(key): the type of the value, None
\* ("none") for a payload without the key.
infer_value_type(value) == IF value \in ValueTypes THEN value ELSE "none"

\* The offsets the payload storage has a payload for.
StoredPayloads(values) == {i \in Offsets : values[i] # "none"}

\* infer_payload_type: payload.iter with a callback that overwrites the
\* schema and returns Ok(false), so the schema is the one of a single
\* stored payload, `visited` (None when nothing is stored).
infer_from_payload_data(values, visited) ==
    IF visited = None THEN "none" ELSE infer_value_type(values[visited])

\* The payloads iter can hand to the callback.
Visits(values) ==
    IF StoredPayloads(values) = {} THEN {None} ELSE StoredPayloads(values)

\* create_field_index(op_num, key, None)
create_field_index_inferred(s, values, op_num, key, visited) ==
    LET schema_type == infer_from_payload_data(values, visited)
        r == handle_version_and_failure(s, op_num, None,
                IF schema_type = "none"
                THEN Out(s, Err("TypeInferenceError"), None)
                ELSE Out(set_indexed(s, key, 0).seg, Ok(TRUE), None))
    IN [seg |-> r.seg, res |-> r.res, path |-> r.path,
        schema |-> IF r.path = "executed" /\ r.res.ok
                        /\ key \notin s.payload_index.config
                   THEN schema_type ELSE "none"]

InitInfer ==
    LET config == [names |-> <<"a">>, distance |-> "Dot"] IN
    /\ InitSegmentOf(config, {})
    /\ shard = [segment |-> NewSegment(None, config),
                values |-> [i \in Offsets |-> "none"],
                schema |-> "none",
                op_num |-> 0]

\* upsert_vector of a point.
InferUpsert ==
    /\ shard.op_num < MaxInferOps
    /\ \E p \in PointIds, v \in {1} :
        /\ HasRoom(shard.segment, p)
        /\ shard' = [shard EXCEPT
                !.segment = upsert_vector(@, shard.op_num, p, v, 0).seg,
                !.op_num = @ + 1]
    /\ UNCHANGED <<seg, last, flushVars, wal>>

\* set_payload of a point: a value of the key, or a value of another key
\* ("empty"), which leaves what the payload has for the key.
InferSetPayload ==
    /\ shard.op_num < MaxInferOps
    /\ \E p \in PointIds, value \in ValueTypes \cup {"empty"} :
        LET i == internal_id(shard.segment.id_tracker, p)
            r == set_payload(shard.segment, shard.op_num, p,
                             IF value = "empty" THEN {} ELSE {"k"}, 0)
        IN /\ r.path = "executed" /\ r.res.ok
           /\ shard' = [shard EXCEPT
                !.segment = r.seg,
                !.values[i] = IF value = "empty" /\ @ # "none" THEN @ ELSE value,
                !.op_num = @ + 1]
    /\ UNCHANGED <<seg, last, flushVars, wal>>

\* delete_payload of the key, or delete_point.
InferDelete ==
    /\ shard.op_num < MaxInferOps
    /\ \E p \in PointIds, point \in BOOLEAN :
        LET i == internal_id(shard.segment.id_tracker, p)
            r == IF point THEN delete_point(shard.segment, shard.op_num, p, 0)
                 ELSE delete_payload(shard.segment, shard.op_num, p, "k", 0)
        IN /\ r.path = "executed" /\ r.res.ok
           /\ shard' = [shard EXCEPT
                !.segment = r.seg,
                !.values[i] = IF point \/ @ = "none" THEN "none" ELSE "empty",
                !.op_num = @ + 1]
    /\ UNCHANGED <<seg, last, flushVars, wal>>

\* create_field_index without a schema, or delete_field_index.
InferIndex ==
    /\ shard.op_num < MaxInferOps
    /\ \/ \E visited \in Visits(shard.values) :
            LET r == create_field_index_inferred(
                        shard.segment, shard.values, shard.op_num, "k", visited)
            IN shard' = [shard EXCEPT
                    !.segment = r.seg,
                    !.schema = IF r.schema # "none" THEN r.schema ELSE @,
                    !.op_num = @ + 1]
       \/ shard' = [shard EXCEPT
                !.segment = delete_field_index(@, shard.op_num, "k", 0).seg,
                !.schema = "none",
                !.op_num = @ + 1]
    /\ UNCHANGED <<seg, last, flushVars, wal>>

NextInfer ==
    \/ InferUpsert
    \/ InferSetPayload
    \/ InferDelete
    \/ InferIndex

SpecInfer == InitInfer /\ [][NextInfer]_vars

\* =========================================================== shard teardown
\* LocalShard::before_drop and the destructor of a LocalShard whose update
\* worker takes signals from the update channel.

\* The calls of before_drop on one shard.
MaxDropCalls == 2

\* A destructor check that panics in every build.
PanicAlways(before_drop_called, test) ==
    IF before_drop_called THEN "clean" ELSE "panic"

\* assert_before_drop_called: nothing when the flag is set, a panic under
\* cfg!(test), an error in the log otherwise.
assert_before_drop_called(before_drop_called, test) ==
    IF before_drop_called THEN "clean"
    ELSE IF test THEN "panic" ELSE "logged"

\* The steps of before_drop, in the order of the code.
BeforeDropSteps == <<"send_stop", "stop_flush_worker", "wait_update_workers_stop">>

InitDrop ==
    /\ InitSegmentOf([names |-> <<"a">>, distance |-> "Dot"], {})
    /\ \E test \in BOOLEAN :
        shard = [test |-> test,
                 before_drop_called |-> FALSE,
                 pc |-> "idle",
                 steps |-> <<>>,
                 completed |-> <<>>,
                 calls |-> 0,
                 returned |-> FALSE,
                 send_failed |-> FALSE,
                 wait_failed |-> FALSE,
                 queue |-> <<>>,
                 worker |-> "running",
                 flush_worker |-> "running",
                 dropped |-> FALSE,
                 outcome |-> "none"]

\* A producer sends an operation to the update worker.
DropSendOperation ==
    /\ ~shard.dropped
    /\ shard.worker = "running"
    /\ Len(shard.queue) < MaxQueue
    /\ \E n \in OpNums :
        shard' = [shard EXCEPT !.queue = Append(@, Operation(n))]
    /\ UNCHANGED <<seg, last, flushVars, wal>>

\* The update worker takes a signal: an operation is applied, Stop ends the
\* worker; or the worker's task fails.
DropWorker ==
    /\ shard.worker = "running"
    /\ \/ /\ shard.queue # <<>>
          /\ shard' = [shard EXCEPT
                !.queue = IF Head(@).kind = "Stop" THEN <<>> ELSE Tail(@),
                !.worker = IF Head(shard.queue).kind = "Stop"
                           THEN "stopped" ELSE @]
       \/ shard' = [shard EXCEPT !.queue = <<>>, !.worker = "failed"]
    /\ UNCHANGED <<seg, last, flushVars, wal>>

\* before_drop, update_sender.send(Stop).await: the signal is queued, or the
\* send fails because the receiver is gone, which is logged.
BeforeDropSend ==
    /\ ~shard.dropped
    /\ shard.pc = "idle"
    /\ shard.calls < MaxDropCalls
    /\ shard.worker = "running" => Len(shard.queue) < MaxQueue
    /\ shard' = [shard EXCEPT
            !.pc = "stop_flush_worker",
            !.calls = @ + 1,
            !.steps = <<"send_stop">>,
            !.queue = IF shard.worker = "running" THEN Append(@, Stop) ELSE @,
            !.send_failed = shard.worker # "running",
            !.wait_failed = FALSE]
    /\ UNCHANGED <<seg, last, flushVars, wal>>

\* before_drop, stop_flush_worker().await
BeforeDropStopFlush ==
    /\ shard.pc = "stop_flush_worker"
    /\ shard' = [shard EXCEPT
            !.pc = "wait_update_workers_stop",
            !.steps = Append(@, "stop_flush_worker"),
            !.flush_worker = "stopped"]
    /\ UNCHANGED <<seg, last, flushVars, wal>>

\* before_drop, wait_update_workers_stop().await: returns when the worker
\* has ended, with an error (logged) when its task failed.
BeforeDropWait ==
    /\ shard.pc = "wait_update_workers_stop"
    /\ shard.worker # "running"
    /\ shard' = [shard EXCEPT
            !.pc = "set",
            !.steps = Append(@, "wait_update_workers_stop"),
            !.wait_failed = shard.worker = "failed"]
    /\ UNCHANGED <<seg, last, flushVars, wal>>

\* before_drop, self.before_drop_called = true, and the return.
BeforeDropSet ==
    /\ shard.pc = "set"
    /\ shard' = [shard EXCEPT
            !.pc = "idle",
            !.before_drop_called = TRUE,
            !.completed = shard.steps,
            !.returned = TRUE]
    /\ UNCHANGED <<seg, last, flushVars, wal>>

\* The future of before_drop is dropped at one of its await points.
BeforeDropCancel ==
    /\ shard.pc \in {"stop_flush_worker", "wait_update_workers_stop"}
    /\ shard' = [shard EXCEPT !.pc = "idle"]
    /\ UNCHANGED <<seg, last, flushVars, wal>>

\* impl Drop for LocalShard
DropShard ==
    /\ ~shard.dropped
    /\ shard.pc = "idle"
    /\ shard' = [shard EXCEPT
            !.dropped = TRUE,
            !.outcome = assert_before_drop_called(shard.before_drop_called,
                                                  shard.test)]
    /\ UNCHANGED <<seg, last, flushVars, wal>>

NextDrop ==
    \/ DropSendOperation
    \/ DropWorker
    \/ BeforeDropSend
    \/ BeforeDropStopFlush
    \/ BeforeDropWait
    \/ BeforeDropSet
    \/ BeforeDropCancel
    \/ DropShard

SpecDrop == InitDrop /\ [][NextDrop]_vars

\* ------------------------------------------- LocalShard::load and its WAL
\* The shard of SpecLoad: the holder's segments, what each segment
\* directory holds, each segment's persisted_version, the phase of
\* LocalShard::load ("live" before the process stops; "load", "replay",
\* "done" or "panicked" after), the segments load has added to the holder
\* and the position of load_from_wal in wal.read_all().
MaxLoadWal == 3

LoadOps ==
    {[kind |-> "upsert_vector", point |-> p, vec |-> v] :
        p \in PointIds, v \in {1, WrongDim}}
        \cup {[kind |-> "set_payload", point |-> p, vec |-> None] :
                p \in PointIds}

LoadFaults == {0, 1}

\* One operation on one segment, with what the segment returns.
ApplyCall(s, op_num, op, fault) ==
    IF op.kind = "upsert_vector"
    THEN upsert_vector(s, op_num, op.point, op.vec, fault)
    ELSE set_payload(s, op_num, op.point, PayloadKeys, fault)

\* apply_points over the segments `ids` of the holder: the first error
\* ends the operation and is returned.
RECURSIVE ApplyOwners(_, _, _, _, _)
ApplyOwners(h, ids, op_num, op, fault) ==
    IF ids = {} THEN [segments |-> h, res |-> Ok(TRUE)]
    ELSE LET i == CHOOSE j \in ids : \A k \in ids : j <= k
             r == ApplyCall(h[i], op_num, op, fault)
         IN IF r.res.ok
            THEN ApplyOwners([h EXCEPT ![i] = r.seg], ids \ {i}, op_num, op,
                             fault)
            ELSE [segments |-> [h EXCEPT ![i] = r.seg], res |-> r.res]

\* CollectionUpdater::update of one entry: the segments holding the point,
\* else (upsert) the appendable segment `target`, else the point is missed.
update(h, op_num, op, target, fault) ==
    IF Owners(h, op.point) # {}
    THEN ApplyOwners(h, Owners(h, op.point), op_num, op, fault)
    ELSE IF op.kind = "upsert_vector"
    THEN ApplyOwners(h, {target}, op_num, op, fault)
    ELSE [segments |-> h, res |-> Err("PointIdError")]

\* A load_from_wal that takes every failed entry for fatal.
PanicOnAnyError(res) == ~res.ok

\* load_from_wal, `if let Err(CollectionError::ServiceError {..})`: the
\* entry's error makes the load panic.
PanicOnError(res) == get_service_error(res)

\* flush_all(true): flush(true) of every segment of the holder.
flush_all(s) ==
    [i \in SegmentIds |->
        flush_sync(s.segments[i], s.disk[i], s.persisted_version[i])]

\* An update on the running shard: written to the WAL and applied; a
\* failure stays in the segment's error_status.
LoadUpdate ==
    /\ shard.phase \in {"live", "done"}
    /\ Len(wal.ops) < MaxLoadWal
    /\ \E op \in LoadOps, fault \in LoadFaults :
       \E target \in Targets(shard.segments, op) :
        LET r == update(shard.segments, Len(wal.ops), op, target, fault) IN
        /\ shard' = [shard EXCEPT !.segments = r.segments, !.phase = "live"]
        /\ wal' = [wal EXCEPT !.ops = Append(@, op)]
    /\ UNCHANGED <<seg, last, flushVars>>

\* flush(true) of one segment of the running shard.
LoadFlush ==
    /\ shard.phase \in {"live", "done"}
    /\ \E i \in SegmentIds :
        LET f == flush_sync(shard.segments[i], shard.disk[i],
                            shard.persisted_version[i])
        IN /\ f.disk # shard.disk[i]
           /\ shard' = [shard EXCEPT !.disk[i] = f.disk,
                                     !.persisted_version[i] =
                                        f.persisted_version,
                                     !.phase = "live"]
    /\ UNCHANGED <<seg, last, flushVars, wal>>

\* The process stops (or has panicked) and LocalShard::load starts with an
\* empty holder.
LoadStart ==
    /\ shard.phase \in {"live", "done", "panicked"}
    /\ shard' = [shard EXCEPT !.phase = "load", !.loaded = {}, !.pos = 0]
    /\ UNCHANGED <<seg, last, flushVars, wal>>

\* load, one load thread: load_segment, then check_consistency_and_repair.
LoadSegment ==
    /\ shard.phase = "load"
    /\ \E i \in SegmentIds \ shard.loaded, dangling \in BOOLEAN :
        LET s == load_segment(shard.disk[i], shard.segments[i])
            r == check_consistency_and_repair(s, dangling, shard.disk[i],
                                              s.version)
        IN shard' = [shard EXCEPT !.segments[i] = r.seg,
                                  !.disk[i] = r.disk,
                                  !.persisted_version[i] =
                                        r.persisted_version,
                                  !.loaded = @ \cup {i}]
    /\ UNCHANGED <<seg, last, flushVars, wal>>

\* load, after the joins: deduplicate_points, then load_from_wal begins.
LoadDeduplicate ==
    /\ shard.phase = "load"
    /\ shard.loaded = SegmentIds
    /\ shard' = [shard EXCEPT !.segments = deduplicate_points(@),
                              !.phase = "replay", !.pos = wal.first]
    /\ UNCHANGED <<seg, last, flushVars, wal>>

\* load_from_wal, one turn of the loop over wal.read_all().
LoadReplayEntry ==
    /\ shard.phase = "replay"
    /\ shard.pos < Len(wal.ops)
    /\ \E fault \in LoadFaults :
       \E target \in Targets(shard.segments, wal.ops[shard.pos + 1]) :
        LET r == update(shard.segments, shard.pos, wal.ops[shard.pos + 1],
                        target, fault)
        IN shard' = IF PanicOnError(r.res)
                    THEN [shard EXCEPT !.segments = r.segments,
                                       !.phase = "panicked"]
                    ELSE [shard EXCEPT !.segments = r.segments,
                                       !.pos = @ + 1]
    /\ UNCHANGED <<seg, last, flushVars, wal>>

\* load_from_wal, after the loop: flush_all(true).unwrap().
LoadFlushAll ==
    /\ shard.phase = "replay"
    /\ shard.pos = Len(wal.ops)
    /\ \E fail \in BOOLEAN :
        shard' = IF fail THEN [shard EXCEPT !.phase = "panicked"]
                 ELSE [shard EXCEPT
                        !.disk = [i \in SegmentIds |-> flush_all(shard)[i].disk],
                        !.persisted_version = [i \in SegmentIds |->
                            flush_all(shard)[i].persisted_version],
                        !.phase = "done"]
    /\ UNCHANGED <<seg, last, flushVars, wal>>

InitLoad ==
    LET config == [names |-> <<"a">>, distance |-> "Dot"]
        built == [i \in SegmentIds |-> NewSegment(None, config)]
    IN
    /\ InitSegmentOf(config, {})
    /\ shard = [segments |-> built,
                disk |-> [i \in SegmentIds |-> EmptyDisk],
                persisted_version |-> [i \in SegmentIds |-> None],
                phase |-> "live", loaded |-> SegmentIds, pos |-> 0]

NextLoad ==
    \/ LoadUpdate
    \/ LoadFlush
    \/ LoadStart
    \/ LoadSegment
    \/ LoadDeduplicate
    \/ LoadReplayEntry
    \/ LoadFlushAll

SpecLoad == InitLoad /\ [][NextLoad]_vars

\* ------------------------------------------ a segment with its history
\* The shard of SpecHistory holds one segment, for every point the highest
\* op_num of a delete_point that was applied to it (`deleted`) and the
\* highest point_version it has shown (`high`), and the last call.
NoHistory == [p \in PointIds |-> None]

HistoryCalls(s) ==
    {CallOf("upsert_vector", n, p, upsert_vector(s, n, p, 1, f)) :
        n \in OpNums, p \in {q \in PointIds : HasRoom(s, q)},
        f \in UpsertFaults(s)}
        \cup DeleteCalls(s) \cup SetPayloadCalls(s)
        \cup {c \in CreateFieldIndexCalls(s) : c.out.res.ok}

\* The call has removed its point from the segment.
Applied(s, c) ==
    /\ c.op = "delete_point"
    /\ c.out.res = Ok(TRUE)
    /\ internal_id(s.id_tracker, c.point) # None
    /\ internal_id(c.out.seg.id_tracker, c.point) = None

HistoryCall ==
    \E c \in HistoryCalls(shard.segment) :
        /\ shard' =
            [segment |-> c.out.seg,
             deleted |-> [p \in PointIds |->
                IF p = c.point /\ Applied(shard.segment, c)
                THEN max(shard.deleted[p], c.op_num)
                ELSE shard.deleted[p]],
             high |-> [p \in PointIds |->
                max(shard.high[p], point_version(c.out.seg, p))],
             call |-> [op |-> c.op, op_num |-> c.op_num, point |-> c.point]]
        /\ UNCHANGED <<seg, last, flushVars, wal>>

InitHistory ==
    LET config == [names |-> <<"a">>, distance |-> "Dot"] IN
    /\ InitSegmentOf(config, {})
    /\ shard = [segment |-> NewSegment(None, config),
                deleted |-> NoHistory, high |-> NoHistory,
                call |-> [op |-> "none", op_num |-> None, point |-> None]]

NextHistory == HistoryCall

SpecHistory == InitHistory /\ [][NextHistory]_vars

\* ------------------------------------- a snapshot without the WAL's entries
\* The shard of SpecEmptyWal: the index of the last WAL entry, the update
\* channel, the operations applied to the segments and
\* create_snapshot(save_wal = false) with what it has put in the snapshot.
MaxSubmitted == 5

InitEmptyWal ==
    /\ InitSegmentOf([names |-> <<"a">>, distance |-> "Dot"], {})
    /\ shard = [last_index |-> 0,
                queue |-> <<>>,
                processed |-> {},
                snapshot |-> [pc |-> "idle", rx |-> "open", segments |-> {},
                              latest_op_num |-> None]]

\* A producer's update: under the WAL lock the operation is appended to the
\* WAL, which gives its seq, and sent on the update channel.
EmptyWalUpdate ==
    /\ shard.last_index < MaxSubmitted
    /\ Len(shard.queue) < MaxQueue
    /\ shard' = [shard EXCEPT
            !.last_index = @ + 1,
            !.queue = Append(@, Operation(shard.last_index + 1))]
    /\ UNCHANGED <<seg, last, flushVars, wal>>

\* The update worker takes the next signal: an operation is applied to the
\* segments, a plunger is answered.
EmptyWalWorker ==
    /\ shard.queue # <<>>
    /\ shard' =
        IF Head(shard.queue).kind = "Operation"
        THEN [shard EXCEPT !.queue = Tail(@),
                           !.processed = @ \cup {Head(shard.queue).op}]
        ELSE [shard EXCEPT !.queue = Tail(@), !.snapshot.rx = "signalled"]
    /\ UNCHANGED <<seg, last, flushVars, wal>>

\* create_snapshot(save_wal = false): update_sender.load().send(plunger)
EmptyWalPlunger ==
    /\ shard.snapshot.pc = "idle"
    /\ Len(shard.queue) < MaxQueue
    /\ shard' = [shard EXCEPT !.queue = Append(@, Plunger),
                              !.snapshot.pc = "waiting"]
    /\ UNCHANGED <<seg, last, flushVars, wal>>

\* rx.await?, then snapshot_all_segments under the holder's read guard.
SnapshotAllSegments ==
    /\ shard.snapshot.pc = "waiting"
    /\ SnapshotReady(shard.snapshot.rx)
    /\ shard' = [shard EXCEPT !.snapshot.pc = "segments",
                              !.snapshot.segments = shard.processed]
    /\ UNCHANGED <<seg, last, flushVars, wal>>

\* snapshot_empty_wal: wal.lock(), last_index(), and the empty WAL is
\* generated starting at that index.
snapshot_empty_wal ==
    /\ shard.snapshot.pc = "segments"
    /\ shard' = [shard EXCEPT !.snapshot.pc = "done",
                              !.snapshot.latest_op_num = shard.last_index]
    /\ UNCHANGED <<seg, last, flushVars, wal>>

NextEmptyWal ==
    \/ EmptyWalUpdate
    \/ EmptyWalWorker
    \/ EmptyWalPlunger
    \/ SnapshotAllSegments
    \/ snapshot_empty_wal

SpecEmptyWal == InitEmptyWal /\ [][NextEmptyWal]_vars

\* ------------------------------------- the registry of the payload index
\* StructPayloadIndex with the schemas: config.indexed_fields maps a field
\* to the schema indexed_fields() reports, field_indexes maps a field to
\* the index built for it, kept here as the schema it was built with.  The
\* shard of SpecRegistry holds the two maps and the last call.
RegistryKeys == {"k", "j"}
NoSchema == "none"
RegistryFaults == 0..2

\* HashMap::insert: the value is stored, over the old one if there is one.
Insert(indexed_fields, field, payload_schema) ==
    [indexed_fields EXCEPT ![field] = payload_schema]

\* set_indexed with its schema: the insert into config.indexed_fields; only
\* when the field was not there, save_config (fault 1 fails it) and
\* build_and_save (fault 2 fails it).
set_indexed_schema(idx, field, payload_schema, fault) ==
    LET inserted == [idx EXCEPT !.config =
                        Insert(@, field, payload_schema)]
    IN IF idx.config[field] # NoSchema
       THEN [idx |-> inserted, ok |-> TRUE]
       ELSE IF fault # 0
       THEN [idx |-> inserted, ok |-> FALSE]
       ELSE [idx |-> [inserted EXCEPT !.field_indexes[field] = payload_schema],
             ok |-> TRUE]

\* drop_index: the field leaves config.indexed_fields, save_config (fault 1
\* fails it), the field leaves field_indexes, remove_file (fault 2 fails it).
drop_index_schema(idx, field, fault) ==
    LET removed == [idx EXCEPT !.config[field] = NoSchema] IN
    IF fault = 1 THEN [idx |-> removed, ok |-> FALSE]
    ELSE [idx |-> [removed EXCEPT !.field_indexes[field] = NoSchema],
          ok |-> fault = 0]

\* indexed_fields(): the fields of the config with their schemas.
indexed_fields(idx) == {f \in RegistryKeys : idx.config[f] # NoSchema}

RegistryCall(op, field, payload_schema, r) ==
    [idx |-> r.idx,
     call |-> [op |-> op, field |-> field, schema |-> payload_schema,
               ok |-> r.ok]]

RegistrySetIndexed ==
    /\ \E field \in RegistryKeys, payload_schema \in ValueTypes,
          fault \in RegistryFaults :
        shard' = RegistryCall("set_indexed", field, payload_schema,
                    set_indexed_schema(shard.idx, field, payload_schema,
                                       fault))
    /\ UNCHANGED <<seg, last, flushVars, wal>>

RegistryDropIndex ==
    /\ \E field \in RegistryKeys, fault \in RegistryFaults :
        shard' = RegistryCall("drop_index", field, NoSchema,
                    drop_index_schema(shard.idx, field, fault))
    /\ UNCHANGED <<seg, last, flushVars, wal>>

InitRegistry ==
    /\ InitSegmentOf([names |-> <<"a">>, distance |-> "Dot"], {})
    /\ shard = [idx |-> [config |-> [f \in RegistryKeys |-> NoSchema],
                         field_indexes |-> [f \in RegistryKeys |-> NoSchema]],
                call |-> [op |-> "none", field |-> "", schema |-> NoSchema,
                          ok |-> TRUE]]

NextRegistry ==
    \/ RegistrySetIndexed
    \/ RegistryDropIndex

SpecRegistry == InitRegistry /\ [][NextRegistry]_vars

\* ------------------------------------------------ leaf cardinality estimates
\* StructPayloadIndex::condition_cardinality over the segment of SpecQuery.
\* The field indexes themselves are not part of the segment record: what an
\* index of the field reports (count_indexed_points, and its answer to
\* estimate_cardinality, the empty set for None) is an argument.

\* Condition::Field, IsEmpty, IsNull and HasId.
LeafConditions ==
    Conditions \cup {[kind |-> "IsNull", key |-> k, ids |-> {}] : k \in PayloadKeys}

\* StructPayloadIndex::total_points.
total_points(s) == points_count(s)

\* usize::saturating_sub without the saturation.
WrappingSub(a, b) == a - b

\* usize::saturating_sub.
saturating_sub(a, b) == IF a >= b THEN a - b ELSE 0

\* CardinalityEstimation::unknown.
unknown(total) == [min |-> 0, exp |-> total \div 2, max |-> total]

\* CardinalityEstimation::exact.
exact(count) == [min |-> count, exp |-> count, max |-> count]

\* The number of points of the segment that hold the key of the condition.
MatchCount(s, c) ==
    Cardinality({p \in PointIds :
        /\ internal_id(s.id_tracker, p) # None
        /\ c.key \in s.payload[internal_id(s.id_tracker, p)]})

\* What one index of a field can report for the condition.
IndexReports(s, c) ==
    [count_indexed_points : 0..MaxInternal,
     estimate_cardinality : {{}, {exact(MatchCount(s, c))}}]

\* self.field_indexes.get(key): no entry, or the indexes of the field.
FieldIndexLists(s, c) ==
    IF c.key \in s.payload_index.field_indexes
    THEN {{<<a>>} : a \in IndexReports(s, c)}
            \cup {{<<a, b>>} : a, b \in IndexReports(s, c)}
    ELSE {{}}

\* indexed_points = indexed_points.max(index.count_indexed_points()), over
\* the indexes from the position on.
RECURSIVE MaxIndexedPoints(_, _, _)
MaxIndexedPoints(indexes, pos, indexed_points) ==
    IF pos > Len(indexes) THEN indexed_points
    ELSE MaxIndexedPoints(indexes, pos + 1,
                          max(indexed_points, indexes[pos].count_indexed_points))

\* The loop of estimate_field_condition: the answer of the first index that
\* has one, the empty set when none has.
RECURSIVE FirstEstimation(_, _)
FirstEstimation(indexes, pos) ==
    IF pos > Len(indexes) THEN {}
    ELSE IF indexes[pos].estimate_cardinality # {}
    THEN indexes[pos].estimate_cardinality
    ELSE FirstEstimation(indexes, pos + 1)

\* StructPayloadIndex::estimate_field_condition.
estimate_field_condition(field_indexes) ==
    IF field_indexes = {} THEN {}
    ELSE FirstEstimation(CHOOSE indexes \in field_indexes : TRUE, 1)

\* StructPayloadIndex::condition_cardinality: {min, exp, max} of a leaf.
condition_cardinality(s, c, field_indexes) ==
    IF c.kind \in {"IsEmpty", "IsNull"}
    THEN IF field_indexes # {}
         THEN LET indexed_points ==
                      MaxIndexedPoints(CHOOSE indexes \in field_indexes : TRUE, 1, 0)
              IN [min |-> 0,
                  exp |-> saturating_sub(total_points(s), indexed_points),
                  max |-> saturating_sub(total_points(s), indexed_points)]
         ELSE [min |-> 0, exp |-> total_points(s) \div 2, max |-> total_points(s)]
    ELSE IF c.kind = "HasId"
    THEN LET mapped_ids == {internal_id(s.id_tracker, p) : p \in c.ids} \ {None}
             num_ids == Cardinality(mapped_ids)
         IN [min |-> num_ids, exp |-> num_ids, max |-> num_ids]
    ELSE LET estimation == estimate_field_condition(field_indexes)
         IN IF estimation # {}
            THEN CHOOSE e \in estimation : TRUE
            ELSE unknown(total_points(s))

\* ================================================================== claims
\* The segment with its error latch left out: the id mapping, the stored
\* vectors and payloads, the per-point versions, the segment version and
\* the payload index.
Data(s) == [s EXCEPT !.error_status = NoError]

\* A call reaches the latch test unless it is delete_point of an id the
\* segment does not hold, which returns Ok(false) before the wrapper.
ReachesLatch(s, c) ==
    ~(c.op = "delete_point" /\ internal_id(s.id_tracker, c.point) = None)

C3_UpsertVersion ==
    \A c \in UpsertCalls(seg) :
        c.out.res.ok =>
            /\ point_version(c.out.seg, c.point) # None
            /\ point_version(c.out.seg, c.point) >= c.op_num

\* ---------------------------------------------------------------------- C4
\* C4: a second upsert_vector with the same (op_num, point id, vectors)
\* right after a successful first call leaves the whole segment state,
\* error_status included, as the first call left it.
C4_SecondUpsertNoOp ==
    \A n \in OpNums, p \in PointIds, v \in Vecs :
        HasRoom(seg, p) =>
            LET first == upsert_vector(seg, n, p, v, 0)
                second == upsert_vector(first.seg, n, p, v, 0)
            IN first.res.ok => second.seg = first.seg

\* ---------------------------------------------------------------------- C5
\* A failed call latched the error, and the same call made again succeeded.
RetryClears(failed, retried) ==
    (failed.path = "executed" /\ get_service_error(failed.res)
        /\ retried.res.ok)
        => ~retried.seg.error_status.set

\* C5: after a point operation on p fails with a service error at op_num n,
\* the same operation submitted again with op_num n and succeeding clears
\* error_status, for every kind of point operation.
C5_RetryRecovers ==
    \A n \in OpNums, p \in PointIds :
        /\ \A v \in Vecs, f \in UpsertFaults(seg) :
            HasRoom(seg, p) =>
                RetryClears(upsert_vector(seg, n, p, v, f),
                    upsert_vector(upsert_vector(seg, n, p, v, f).seg,
                                  n, p, v, 0))
        /\ \A f \in DeleteFaults :
            RetryClears(delete_point(seg, n, p, f),
                delete_point(delete_point(seg, n, p, f).seg, n, p, 0))
        /\ \A pl \in Payloads, f \in PayloadFaults :
            RetryClears(set_full_payload(seg, n, p, pl, f),
                set_full_payload(set_full_payload(seg, n, p, pl, f).seg,
                                 n, p, pl, 0))
        /\ \A pl \in Payloads, f \in PayloadFaults :
            RetryClears(set_payload(seg, n, p, pl, f),
                set_payload(set_payload(seg, n, p, pl, f).seg, n, p, pl, 0))
        /\ \A k \in PayloadKeys, f \in PayloadFaults :
            RetryClears(delete_payload(seg, n, p, k, f),
                delete_payload(delete_payload(seg, n, p, k, f).seg,
                               n, p, k, 0))
        /\ \A f \in PayloadFaults :
            RetryClears(clear_payload(seg, n, p, f),
                clear_payload(clear_payload(seg, n, p, f).seg, n, p, 0))

\* ---------------------------------------------------------------------- C6
\* An optional version is below another: None is below every number.
OptLeq(a, b) == a = None \/ (b # None /\ a <= b)

\* C6: in every reachable state (after build or load, after mutations and
\* sync or async flushes, while a background flush thread is running)
\* persisted_version <= version, None ordered below every number.
C6_PersistedBelowVersion == OptLeq(persisted_version, seg.version)

\* A background flush is running on a segment that has moved past the
\* version persisted by an earlier flush.
C6_Witness ==
    /\ flush_thread.thread.status = "running"
    /\ persisted_version # None
    /\ seg.version > persisted_version

\* ---------------------------------------------------------------------- C7
\* C7: when flush(true) has returned Ok on a segment whose version is not
\* None, persisted_version equals version, the state file holds that
\* version, and load_segment yields a segment with that version.
C7_SyncFlushPersists ==
    \A c \in DOMAIN callers :
        (callers[c].pc = "returned" /\ callers[c].sync /\ callers[c].ret.ok
            /\ seg.version # None)
            => /\ persisted_version = seg.version
               /\ disk.state_version = seg.version
               /\ load_segment(disk, seg).version = seg.version
               /\ callers[c].ret.val = seg.version

\* flush(true) has run flush_op to its end and returned its version.
C7_Witness ==
    \E c \in DOMAIN callers :
        /\ callers[c].pc = "returned"
        /\ callers[c].sync
        /\ callers[c].ret = FlushOk(seg.version, "done")
        /\ seg.version = MaxOpNum

\* ---------------------------------------------------------------------- C8
IsPrefix(a, b) == Len(a) <= Len(b) /\ \A j \in 1..Len(a) : a[j] = b[j]

\* The order of the claim: id mapping, every vector storage, payload index,
\* id versions, state file, and then persisted_version.
C8_Order ==
    <<FlushStep("id_tracker_mapping", "")>> \o VectorSteps(seg)
        \o <<FlushStep("payload_index", ""),
             FlushStep("id_tracker_versions", ""),
             FlushStep("segment_state", ""),
             FlushStep("persisted_version", "")>>

SomeFlushRunning ==
    \/ flush_thread.thread.status = "running"
    \/ \E c \in DOMAIN callers : callers[c].pc = "flushing"

\* C8: within one flush the steps run in the order id mapping, every vector
\* storage, payload index, id versions, state file and only then the update
\* of persisted_version; a step that fails ends the flush, no later step
\* runs and persisted_version keeps its value.
C8_FlushOrder ==
    [][/\ IsPrefix(flush_log', C8_Order)
       /\ flush_log' # flush_log /\ flush_log' # <<>> =>
            /\ SomeFlushRunning
            /\ Len(flush_log') = Len(flush_log) + 1
       /\ persisted_version' # persisted_version =>
            \/ flush_log' = C8_Order
            \/ flush_log' = <<>> /\ persisted_version' = disk.state_version
       /\ (flush_thread.thread.status = "running"
            /\ flush_thread'.thread.status = "err") =>
            /\ flush_log' = flush_log
            /\ persisted_version' = persisted_version
            /\ disk' = disk
       /\ \A c \in DOMAIN callers :
            (callers[c].pc = "flushing" /\ callers'[c].pc = "returned"
                /\ ~callers'[c].ret.ok) =>
                /\ flush_log' = flush_log
                /\ persisted_version' = persisted_version
                /\ disk' = disk
      ]_vars

\* A background flush failed between the vector storages and the id
\* versions, and persisted_version is still behind.
C8_Witness ==
    /\ flush_thread.thread.status = "err"
    /\ Len(flush_log) = 1 + Len(seg.segment_config.names)
    /\ persisted_version # seg.version

\* --------------------------------------------------------------------- C10
FlushesInProgress ==
    Cardinality({c \in DOMAIN callers : callers[c].pc = "flushing"})
        + (IF flush_thread.thread.status = "running" THEN 1 ELSE 0)

View(s) ==
    [p \in PointIds |->
        LET i == internal_id(s.id_tracker, p) IN
        IF i = None THEN <<>>
        ELSE <<[n \in {"a", "b"} |-> s.vector_storage[n][i]],
               s.payload[i], internal_version(s.id_tracker, i)>>]

\* C9: if the process stops now (after any prefix of the flush steps, with
\* writes interleaved with a background flush), loading the segment and
\* replaying the WAL entries not yet acknowledged restores exactly the
\* points, vectors, payloads and versions the segment shows now.
C9_ReplayRestores ==
    View(Replay(load_segment(disk, seg), wal.ops, wal.first)) = View(seg)

\* --------------------------------------------------------------------- C11
\* What the shard shows: per segment the points, their vectors, payloads
\* and versions, the segment version and the indexed fields.
ShardState(h) ==
    [i \in DOMAIN h |->
        [points |-> View(h[i]), version |-> h[i].version,
         indexed |-> h[i].payload_index.config]]

\* C11: WAL replay is idempotent: applying all WAL entries in order twice
\* leaves the shard (points, vectors, payloads, per-point versions, segment
\* versions, indexed fields) as applying them once left it.
C11_ReplayIdempotent ==
    shard.phase = "done" => ShardState(shard.segments) = ShardState(shard.once)

\* --------------------------------------------------------------------- C12
\* C12: no update operation is lost across on_optimizer_config_update:
\* every operation a producer has sent is processed by an update worker
\* (none is left behind in the channel of a worker that has ended), and
\* Stop is the last signal ever enqueued on the old channel.
C12_NoOperationLost ==
    /\ \A ch \in Channels :
        shard.worker[ch] = "stopped" =>
            /\ shard.queue[ch] = <<>>
            /\ \A n \in shard.accepted :
                (n \in shard.processed)
                    \/ (\E c \in Channels : n \in OperationsOf(shard.queue[c]))
    /\ ~shard.after_stop

\* --------------------------------------------------------------------- C13
\* C13: create_snapshot with save_wal = false starts snapshotting only
\* after every update signal sent on the update channel before its Plunger
\* has been applied.
C13_SnapshotAfterPlunger ==
    shard.snapshot.pc = "snapshotting"
        => shard.snapshot.before \subseteq shard.processed

\* --------------------------------------------------------------------- C14
\* C14: when the process stopped inside drop_data after the rename of a
\* segment directory to <path>.deleted and before its removal, the next
\* LocalShard::load removes that directory and does not load it as a
\* segment.
C14_DeletedRemovedOnLoad ==
    (shard.up /\ shard.loads > 0) =>
        \A p \in shard.stopped_drop :
            ~shard.fs[p].exists /\ p \notin shard.holder

\* --------------------------------------------------------------------- C15
\* C15: the version file is the commit marker of a segment directory that
\* build_segment fills: it is there only when the stores and the state file
\* are, load_segment returns Ok(None) without it, and a directory a stop
\* left inside build_segment is never loaded as a segment without a
\* readable state file.
C15_VersionIsCommitMarker ==
    \A u \in SegmentDirs :
        LET d == shard.fs[segments_path \o <<Component(u, "")>>] IN
        d.exists =>
            /\ check_exists(d) => {"stores", "segment.json"} \subseteq d.files
            /\ ~check_exists(d) => load_segment_entry(d) = "none"
            /\ load_segment_entry(d) = "some" => "segment.json" \in d.files
            /\ load_segment_entry(d) # "err"

\* A load has passed over a directory that a stop left inside build_segment
\* with its stores created: the directory is still there and is no segment
\* of the holder.
C15_Witness ==
    /\ shard.up /\ shard.loads > 0
    /\ \E p \in shard.stopped_build :
        /\ "stores" \in shard.fs[p].files
        /\ ~check_exists(shard.fs[p])
        /\ p \notin shard.holder

\* --------------------------------------------------------------------- C18
\* The copies of points the segments of a holder have.
Copies(h) == {<<i, p>> \in (DOMAIN h) \X PointIds : i \in Owners(h, p)}

\* C18: after deduplicate_points of a shard load, every external id the
\* loaded segments held is in exactly one segment of the holder, one that
\* held the id's highest internal version, and the count returned is the
\* number of copies dropped.
C18_DeduplicatePoints ==
    (shard.phase = "replay" /\ shard.pos = 0) =>
        /\ \A p \in PointIds :
            IF Owners(shard.stored, p) = {}
            THEN Owners(shard.segments, p) = {}
            ELSE \E i \in Owners(shard.stored, p) :
                    /\ Owners(shard.segments, p) = {i}
                    /\ \A j \in Owners(shard.stored, p) :
                        unwrap_or(point_version(shard.stored[j], p), 0)
                            <= unwrap_or(point_version(shard.stored[i], p), 0)
        /\ deduplicated(shard.stored)
                = Cardinality(Copies(shard.stored))
                    - Cardinality(Copies(shard.segments))

\* A load has found a point in two segments with different internal
\* versions and has dropped a copy.
C18_Witness ==
    /\ shard.phase = "replay" /\ shard.pos = 0
    /\ \E p \in PointIds : \E i, j \in Owners(shard.stored, p) :
        /\ point_version(shard.stored[i], p)
                # point_version(shard.stored[j], p)
        /\ Cardinality(Owners(shard.segments, p)) = 1
    /\ deduplicated(shard.stored) > 0

\* --------------------------------------------------------------------- C16
\* C16: proxy revert is observationally invisible: after a cancelled
\* optimization the mapping id -> vector, id -> payload of the segment is
\* the mapping before the optimization with exactly the writes and deletes
\* of the window applied (no point lost, duplicated or resurrected), S is
\* untouched until the revert, and the segment is still Plain.
C16_RevertInvisible ==
    /\ shard.kind = "Proxy" => shard.wrapped = shard.before
    /\ shard.outcome = "reverted" =>
        /\ \A p \in PointIds :
                PointData(shard.wrapped, p) = shard.described[p]
        /\ shard.wrapped = ApplyLog(shard.before, shard.log, 1)
        /\ shard.kind = "Original"
        /\ shard.segment_type = "Plain"

\* A revert after a window in which a point of S was deleted and another
\* point was written.
C16_Witness ==
    /\ shard.outcome = "reverted"
    /\ \E p, q \in PointIds :
        /\ p # q
        /\ PointData(shard.before, p) # NoPoint
        /\ PointData(shard.wrapped, p) = NoPoint
        /\ PointData(shard.wrapped, q) # PointData(shard.before, q)

\* --------------------------------------------------------------------- C19
\* C19: for any filter F, query_points(F) returns exactly the offsets of
\* the live points that satisfy filter_context(F).check, each once, so the
\* number of returned offsets equals count(F).
C19_QueryPointsExact ==
    \A F \in Filters :
        LET matched == query_points(shard.segment, F)
            live == {i \in Offsets :
                        /\ external_id(shard.segment.id_tracker, i) # None
                        /\ check(shard.segment, i, F)}
        IN
        /\ {matched[k] : k \in 1..Len(matched)} = live
        /\ Len(matched) = Cardinality(live)

\* A filter whose primary clauses yield the same offset twice, and a
\* deleted point next to the matching one.
C19_Witness ==
    \E F \in Filters :
        LET clauses == primary_clauses(shard.segment, F)
            ids == Concat([k \in 1..Len(clauses) |->
                            clause_ids(shard.segment, clauses[k])])
        IN
        /\ Len(clauses) > 1
        /\ \E j, k \in 1..Len(ids) : j # k /\ ids[j] = ids[k]
        /\ Len(query_points(shard.segment, F)) > 0
        /\ \E i \in Offsets :
            /\ i < internal_size(shard.segment.id_tracker)
            /\ external_id(shard.segment.id_tracker, i) = None

C21_WrongVectorUnchanged ==
    \A n \in OpNums, p \in PointIds :
        LET r == upsert_vector(seg, n, p, WrongDim, 0) IN
        r.path = "executed" =>
            /\ r.res = Err("WrongVector")
            /\ r.seg = seg

\* --------------------------------------------------------------------- C22
\* The scored points of a result other than the point e, in their order.
Others(points, e) == SelectSeq(points, LAMBDA sp : sp.id # e)

Batches ==
    {<<>>}
        \cup {<<q>> : q \in Vecs \cup {WrongDim}}
        \cup {<<q1, q2>> : q1 \in Vecs \cup {WrongDim}, q2 \in Vecs \cup {WrongDim}}

ReadFilters ==
    {[some |-> FALSE, F |-> NoFilter]}
        \cup {[some |-> TRUE, F |-> F] : F \in SearchFilters}
Limits == {None} \cup Tops

\* The external ids of the offsets that are not deleted.
NonDeleted(s) ==
    {external_id(s.id_tracker, i) : i \in Offsets} \ {None}

\* C24: read_filtered with no filter returns every non-deleted external id
\* at or after the offset, in ascending order, truncated to limit; with
\* limit = 0 it returns an empty list with or without a filter.  (A read
\* takes the segment by shared reference and returns only the list.)
C24_ReadFiltered ==
    \A offset \in {None} \cup PointIds, limit \in Limits,
       filter \in ReadFilters, est \in Estimations :
        LET page == read_filtered(shard.segment, offset, limit, filter, est)
            from == {p \in NonDeleted(shard.segment) :
                        offset = None \/ p >= offset}
        IN /\ limit = 0 => page = <<>>
           /\ ~filter.some =>
                /\ \A k \in DOMAIN page : page[k] \in from
                /\ \A j \in DOMAIN page, k \in DOMAIN page :
                    j < k => page[j] < page[k]
                /\ Len(page) = IF limit = None \/ limit > Cardinality(from)
                               THEN Cardinality(from) ELSE limit
                /\ \A k \in DOMAIN page, p \in from :
                    p < page[k] => \E j \in DOMAIN page : page[j] = p

\* The segment holds every point: a read from the last id on
\* returns that id alone, a read of limit 1 the first id, one of limit 0 none.
C24_Witness ==
    LET s == shard.segment
        none == [some |-> FALSE, F |-> NoFilter]
        est == [exp |-> 0, max |-> 0]
    IN /\ Cardinality(NonDeleted(s)) = MaxPoints
       /\ read_filtered(s, MaxPoints, None, none, est) = <<MaxPoints>>
       /\ read_filtered(s, None, 1, none, est) = <<1>>
       /\ read_filtered(s, None, 0, [some |-> TRUE, F |-> NoFilter], est) = <<>>

\* --------------------------------------------------------------------- C25
\* C25: appendable_flag is true exactly when the index of the segment's
\* config is Plain and its storage type is InMemory, so a segment of type
\* Indexed is never appendable; it is set by create_segment at creation or
\* load, and no operation on the segment changes it or the segment type.
C25_AppendableFixed ==
    /\ [](/\ shard.appendable_flag <=>
                (/\ shard.segment.segment_config.index = "Plain"
                 /\ shard.segment.segment_config.storage_type = "InMemory")
          /\ shard.segment_type = "Indexed" => ~shard.appendable_flag
          /\ shard.segment_type = "Indexed" <=>
                shard.segment.segment_config.index = "Hnsw")
    /\ [][/\ shard'.appendable_flag = shard.appendable_flag
          /\ shard'.segment_type = shard.segment_type]_vars

\* An Indexed segment that took an update and was flushed.
C25_Witness ==
    /\ shard.segment_type = "Indexed"
    /\ ~shard.appendable_flag
    /\ shard.segment.version # None
    /\ shard.persisted_version = shard.segment.version
    /\ shard.disk.state_version = shard.segment.version
    /\ \E p \in PointIds : internal_id(shard.segment.id_tracker, p) # None

\* --------------------------------------------------------------------- C26
\* The id mapping is a bijection on the live points: every offset of the
\* live iterator has an external id that maps back to it, and every mapped
\* external id is the external id of its offset.
Bijection(s) ==
    LET t == s.id_tracker IN
    /\ \A k \in DOMAIN iter_ids(s) :
        /\ external_id(t, iter_ids(s)[k]) # None
        /\ internal_id(t, external_id(t, iter_ids(s)[k])) = iter_ids(s)[k]
    /\ \A i \in Offsets :
        external_id(t, i) # None => internal_id(t, external_id(t, i)) = i
    /\ \A p \in PointIds :
        internal_id(t, p) # None =>
            /\ internal_id(t, p) < internal_size(t)
            /\ external_id(t, internal_id(t, p)) = p
    /\ \A p \in PointIds, q \in PointIds :
        (internal_id(t, p) # None /\ internal_id(t, p) = internal_id(t, q))
            => p = q

\* C26: after any sequence of successful upsert_vector and delete_point
\* calls the id mapping is a bijection on the live points, a point that
\* upsert_vector stored has an internal id, and an external id that
\* delete_point deleted has none.
C26_IdMappingBijection ==
    /\ Bijection(shard.segment)
    /\ \A p \in PointIds, v \in Vecs :
        /\ LET r == delete_point(shard.segment, shard.op_num, p, 0) IN
            r.res = Ok(TRUE) =>
                /\ internal_id(r.seg.id_tracker, p) = None
                /\ Bijection(r.seg)
        /\ LET r == upsert_vector(shard.segment, shard.op_num, p, v, 0) IN
            (HasRoom(shard.segment, p) /\ r.res.ok) =>
                /\ internal_id(r.seg.id_tracker, p) # None
                /\ Bijection(r.seg)

\* A point was deleted and stored again at a new offset, next to the
\* offset it left.
C26_Witness ==
    \E p \in PointIds :
        /\ internal_id(shard.segment.id_tracker, p) = 1
        /\ external_id(shard.segment.id_tracker, 0) = None
        /\ internal_size(shard.segment.id_tracker) = 2
        /\ delete_point(shard.segment, shard.op_num, p, 0).res = Ok(TRUE)

\* --------------------------------------------------------------------- C27
\* The types of the stored values of the key.
StoredTypes(values) == {values[i] : i \in Offsets} \cap ValueTypes

\* C27: create_field_index without a schema, when it runs, indexes the
\* field with the one type of the stored values of the key if they have
\* exactly one, and otherwise fails with TypeInferenceError and leaves the
\* indexed fields and the segment version unchanged.
C27_InferOrFail ==
    \A visited \in Visits(shard.values) :
        LET s == shard.segment
            r == create_field_index_inferred(s, shard.values, shard.op_num,
                                             "k", visited)
            types == StoredTypes(shard.values)
        IN ("k" \notin s.payload_index.config /\ r.path = "executed") =>
            IF Cardinality(types) = 1
            THEN /\ r.res = Ok(TRUE)
                 /\ "k" \in r.seg.payload_index.field_indexes
                 /\ r.schema \in types
            ELSE /\ r.res = Err("TypeInferenceError")
                 /\ r.seg.payload_index = s.payload_index
                 /\ r.seg.version = s.version

\* --------------------------------------------------------------------- C28
\* C28: before_drop_called is set exactly by a before_drop that sent Stop,
\* stopped the flush worker and waited for the update workers, in this
\* order; every before_drop that returns has set it, also when sending Stop
\* or waiting failed; and dropping the shard does nothing when the flag is
\* set, panics in a test build and logs an error otherwise when it is not.
C28_BeforeDrop ==
    /\ shard.before_drop_called <=> shard.completed = BeforeDropSteps
    /\ shard.before_drop_called =>
        /\ shard.flush_worker = "stopped"
        /\ shard.worker # "running"
    /\ shard.returned => shard.before_drop_called
    /\ shard.pc = "set" => shard.steps = BeforeDropSteps
    /\ shard.outcome =
        IF ~shard.dropped THEN "none"
        ELSE IF shard.before_drop_called THEN "clean"
        ELSE IF shard.test THEN "panic" ELSE "logged"

\* A shard dropped after a before_drop whose Stop could not be sent and
\* whose wait for the workers failed.
C28_Witness ==
    /\ shard.dropped
    /\ shard.before_drop_called
    /\ shard.send_failed
    /\ shard.wait_failed
    /\ shard.outcome = "clean"

\* --------------------------------------------------------------------- C29
\* The calls of C29: a point operation whose op_num is lower than the
\* version recorded for its point, or create_field_index or
\* delete_field_index whose op_num is lower than the segment version.
StaleCalls(s) ==
    {c \in PointCalls(s) :
        point_version(s, c.point) # None /\ c.op_num < point_version(s, c.point)}
    \cup {c \in CreateFieldIndexCalls(s) \cup DeleteFieldIndexCalls(s) :
            s.version # None /\ c.op_num < s.version}

FailedPoint(s, c) ==
    IF c.point = None \/ internal_id(s.id_tracker, c.point) = None THEN None
    ELSE c.point

\* C30: a call whose wrapped operation ran and returned a service error
\* leaves error_status = {version: its op_num, point_id: the external id of
\* its point offset (None for non-point operations and for a new point)};
\* every other call, one failing with PointIdError, WrongVector or
\* TypeInferenceError included, neither sets error_status nor replaces a
\* latched error by another: it leaves error_status as it was or cleared.
C30_ErrorStatusSet ==
    \A c \in MutatingCalls(seg) :
        IF c.out.path = "executed" /\ c.out.res = Err("ServiceError")
        THEN c.out.seg.error_status =
                [set |-> TRUE, version |-> c.op_num,
                 point_id |-> FailedPoint(seg, c)]
        ELSE c.out.seg.error_status \in {seg.error_status, NoError}

\* An error is latched for a stored point, by a call that ran, and a call
\* on the segment fails with an error that is not a service error.
C30_Witness ==
    /\ seg.error_status.set
    /\ seg.error_status.point_id # None
    /\ last = "executed"
    /\ \E c \in MutatingCalls(seg) :
        /\ c.out.path = "executed"
        /\ c.out.res.err \in {"PointIdError", "WrongVector", "TypeInferenceError"}

\* --------------------------------------------------------------------- C31
\* C31: a call that finds error_status set and leaves it cleared is a call
\* whose operation was executed and returned success and whose point id
\* equals the latched point_id; a call that fails with a non-service error
\* or is skipped as stale never clears it.
C31_ClearedOnlyBySuccess ==
    \A c \in MutatingCalls(seg) :
        (seg.error_status.set /\ ~c.out.seg.error_status.set) =>
            /\ c.out.path = "executed"
            /\ c.out.res.ok
            /\ FailedPoint(seg, c) = seg.error_status.point_id

\* --------------------------------------------------------------------- C32
\* The points of the segment whose last applied operation lies below the
\* first entry the WAL still holds.
Acknowledged(s, first) ==
    {p \in PointIds :
        internal_id(s.id_tracker, p) # None /\ point_version(s, p) < first}

\* What flush answers is covered by what is persisted: the value is at most
\* persisted_version (or 0) and at most the version of the stored state
\* file; flush_op run by the caller answers the version it has just stored;
\* a segment without version answers without flushing.
FlushReturnCovered ==
    \A c \in DOMAIN callers :
        (callers[c].pc = "returned" /\ callers[c].ret.ok) =>
            /\ callers[c].ret.val <= unwrap_or(persisted_version, 0)
            /\ callers[c].ret.val <= unwrap_or(disk.state_version, 0)
            /\ (callers[c].ret.via = "done" =>
                    /\ callers[c].sync
                    /\ callers[c].ret.val = persisted_version
                    /\ callers[c].ret.val = disk.state_version)
            /\ (callers[c].ret.via = "empty" => seg.version = None)
            /\ (~callers[c].sync => callers[c].ret.via # "done")

\* flush(false) answers the version that was persisted when it was called.
FlushAsyncReturnsEarlier ==
    \A c \in DOMAIN callers :
        (/\ callers[c].pc # "returned"
         /\ callers'[c].pc = "returned"
         /\ ~callers'[c].sync
         /\ callers'[c].ret.ok) =>
            callers'[c].ret.val =
                unwrap_or(callers[c].current_persisted_version, 0)

\* The WAL is never cut beyond the stored state version, and every point
\* last written by an entry that was cut is stored as the segment shows it.
AcknowledgedPersisted ==
    /\ wal.first <= unwrap_or(disk.state_version, 0)
    /\ \A p \in Acknowledged(seg, wal.first) :
        View(load_segment(disk, seg))[p] = View(seg)[p]

\* C32: the value flush returns never exceeds the version up to which the
\* segment's data is persisted: flush(true) returns the version it just
\* persisted, flush(false) the version persisted before the call, a segment
\* with no version the persisted version or 0 without flushing; so the WAL
\* acknowledged up to the returned value never loses an operation that is
\* not persisted.
C32_FlushReturnPersisted ==
    /\ [](FlushReturnCovered /\ AcknowledgedPersisted)
    /\ [][FlushAsyncReturnsEarlier]_vars

\* A flush(false) has spawned flush_op and answered an earlier persisted
\* version, above 0 and below the segment version, and the WAL is cut.
C32_Witness ==
    \E c \in DOMAIN callers :
        /\ callers[c].pc = "returned"
        /\ callers[c].ret.ok
        /\ ~callers[c].sync
        /\ callers[c].ret.via = "spawned"
        /\ callers[c].ret.val >= 1
        /\ seg.version > callers[c].ret.val
        /\ wal.first >= 1
        /\ Acknowledged(seg, wal.first) # {}

\* --------------------------------------------------------------------- C33
\* No point is held by two segments of the holder.
Deduplicated(h) == \A p \in PointIds : Cardinality(Owners(h, p)) <= 1

\* load_from_wal begins only when every segment is loaded and repaired and
\* the holder is deduplicated, at the first entry the WAL holds.
ReplayAfterLoad ==
    (shard.phase # "replay" /\ shard'.phase = "replay") =>
        /\ shard.phase = "load"
        /\ shard.loaded = SegmentIds
        /\ shard'.segments = deduplicate_points(shard.segments)
        /\ shard'.pos = wal.first

\* One entry of the replay: the entry at the position is applied with its
\* index as op_num; a service error ends the load in a panic, every other
\* outcome moves on to the next entry.
ReplayInOrder ==
    (shard.phase = "replay" /\ shard.pos < Len(wal.ops) /\ shard' # shard) =>
        \E fault \in LoadFaults :
        \E target \in Targets(shard.segments, wal.ops[shard.pos + 1]) :
            LET r == update(shard.segments, shard.pos,
                            wal.ops[shard.pos + 1], target, fault)
            IN /\ shard'.segments = r.segments
               /\ IF get_service_error(r.res)
                  THEN shard'.phase = "panicked" /\ shard'.pos = shard.pos
                  ELSE shard'.phase = "replay"
                        /\ shard'.pos = shard.pos + 1

\* After a completed replay every entry has been visited and every segment
\* with a version has it persisted.
ReplayFlushed ==
    shard.phase = "done" =>
        /\ shard.pos = Len(wal.ops)
        /\ \A i \in SegmentIds :
            shard.segments[i].version # None =>
                /\ shard.persisted_version[i] = shard.segments[i].version
                /\ shard.disk[i].state_version = shard.segments[i].version

\* C33: on shard load the WAL is replayed in seq order after segment load,
\* consistency repair and deduplication; an entry failing with a
\* non-service error is skipped and the replay goes on, an entry failing
\* with a service error aborts the load with a panic, and after a completed
\* replay persisted_version equals version in each segment with a version.
C33_LoadFromWal ==
    /\ [](ReplayFlushed
            /\ (shard.phase = "replay" => Deduplicated(shard.segments)))
    /\ [][ReplayAfterLoad /\ ReplayInOrder]_vars

\* A load has completed over a WAL with an entry that fails with a
\* non-service error (a vector of the wrong dimension) followed by an entry
\* that was applied, and the segment that took it has its version persisted.
C33_Witness ==
    /\ shard.phase = "done"
    /\ Len(wal.ops) >= 2
    /\ wal.ops[1].vec = WrongDim
    /\ \E i \in SegmentIds :
        /\ shard.segments[i].version = Len(wal.ops) - 1
        /\ shard.persisted_version[i] = Len(wal.ops) - 1

\* --------------------------------------------------------------------- C34
\* An upsert_vector(m, id, v) on a segment that does not hold id and on
\* which a delete_point(n, id) with n > m was applied leaves id absent.
NotResurrected ==
    \A p \in PointIds :
        (/\ shard'.call.op = "upsert_vector"
         /\ shard'.call.point = p
         /\ shard'.call.op_num < shard.deleted[p]
         /\ internal_id(shard.segment.id_tracker, p) = None) =>
            internal_id(shard'.segment.id_tracker, p) = None

\* point_version(id), when it is defined, is at least every version the
\* point has shown before.
PointVersionMonotone ==
    \A p \in PointIds :
        point_version(shard'.segment, p) # None =>
            point_version(shard'.segment, p) >= shard.high[p]

\* C34: a deleted point is not resurrected by an older operation: after
\* delete_point(n, id) was applied, a later upsert_vector(m, id, v) with
\* m < n does not make id exist again, and point_version(id), whenever it
\* is defined, never decreases.
C34_NotResurrected == [][NotResurrected /\ PointVersionMonotone]_vars

\* The last call was an upsert_vector of a point below the op_num of the
\* delete_point applied to it, and the point is still absent.
C34_Witness ==
    \E p \in PointIds :
        /\ shard.call.op = "upsert_vector"
        /\ shard.call.point = p
        /\ shard.deleted[p] # None
        /\ shard.call.op_num < shard.deleted[p]
        /\ shard.high[p] # None
        /\ internal_id(shard.segment.id_tracker, p) = None

\* --------------------------------------------------------------------- C35
\* C35: in a snapshot created with save_wal = false while producers keep
\* submitting updates, every operation whose seq is at most the starting
\* index of the generated empty WAL (the captured last_index) is contained
\* in the snapshotted segments.
C35_EmptyWalCovered ==
    shard.snapshot.pc = "done" =>
        \A n \in 1..shard.snapshot.latest_op_num :
            n \in shard.snapshot.segments

\* --------------------------------------------------------------------- C36
\* delete_point of every id, the ids the segment does not hold included,
\* and upsert_vector with a vector set that check_vectors_set refuses.
GateCalls(s) ==
    DeleteCalls(s)
        \cup {CallOf("upsert_vector", n, p,
                     upsert_vector(s, n, p, WrongSet, 0)) :
                n \in OpNums, p \in PointIds}

\* C36: every mutating entry point is gated by the error latch and the
\* version check: delete_point for an id that is not in the segment and
\* upsert_vector with an invalid vector set are rejected as not recovered
\* while error_status is set with a failed version lower than op_num, and
\* never return a result without passing through
\* handle_version_and_failure.
C36_AllGated ==
    \A c \in GateCalls(seg) :
        /\ c.out.path \notin {"absent", "unchecked"}
        /\ IsBlocked(seg.error_status, c.op_num) =>
                c.out.res = Err("NotRecovered")

\* --------------------------------------------------------------------- C37
\* The segment version is at least the recorded version of every live point.
Dominates(s) ==
    \A p \in PointIds :
        point_version(s, p) # None =>
            point_version(s, p) <= unwrap_or(s.version, 0)

Matching(s, offset, F) ==
    {p \in PointIds :
        /\ internal_id(s.id_tracker, p) # None
        /\ offset = None \/ p >= offset
        /\ check(s, internal_id(s.id_tracker, p), F)}

\* The filters of the comparison: up to two should conditions and at most
\* one must or must_not condition.
StrategyFilters ==
    {F \in Filters : Cardinality(F.must) + Cardinality(F.must_not) <= 1}

\* C38: the result of read_filtered does not depend on the strategy: for
\* every segment state, filter, offset and limit, filtered_read_by_index
\* and filtered_read_by_id_stream return the same list, the limit smallest
\* external ids at or after the offset of the live points that satisfy the
\* filter, in ascending order.
C38_SameStrategyResult ==
    \A offset \in {None} \cup PointIds, limit \in Limits,
       F \in StrategyFilters :
        LET by_index ==
                filtered_read_by_index(shard.segment, offset, limit, F)
            by_id_stream ==
                filtered_read_by_id_stream(shard.segment, offset, limit, F)
        IN /\ by_index = by_id_stream
           /\ by_id_stream =
                take(Ascending(Matching(shard.segment, offset, F)), limit)

\* Two points are live and one of them has the key of an indexed field:
\* the index strategy returns it for the field filter, nothing from the
\* next id on, and the stream strategy returns it with limit 1.
C38_Witness ==
    LET s == shard.segment
        F == [must |-> {[kind |-> "Field", key |-> "k", ids |-> {}]},
              should |-> {}, must_not |-> {}]
    IN /\ "k" \in s.payload_index.field_indexes
       /\ internal_id(s.id_tracker, 2) # None
       /\ filtered_read_by_index(s, None, None, F) = <<1>>
       /\ filtered_read_by_index(s, 2, None, F) = <<>>
       /\ filtered_read_by_id_stream(s, None, 1, F) = <<1>>

\* --------------------------------------------------------------------- C39
\* A field is in indexed_fields() exactly when field_indexes has an entry
\* for it, and the schema reported for it is the schema its index was built
\* with.
RegistryConsistent ==
    \A f \in RegistryKeys :
        /\ f \in indexed_fields(shard.idx) <=>
                shard.idx.field_indexes[f] # NoSchema
        /\ shard.idx.config[f] = shard.idx.field_indexes[f]

\* set_indexed on a field that is indexed changes neither the reported
\* schema nor the built index.
SetIndexedAgainKeeps ==
    \A f \in RegistryKeys :
        (/\ shard'.call.op = "set_indexed"
         /\ shard'.call.field = f
         /\ f \in indexed_fields(shard.idx)) =>
            /\ shard'.idx.config[f] = shard.idx.config[f]
            /\ shard'.idx.field_indexes[f] = shard.idx.field_indexes[f]

\* C39: the payload index registry stays consistent under any sequence of
\* set_indexed and drop_index: a field is in indexed_fields() exactly when
\* field_indexes has an entry for it, the schema reported for a field
\* equals the schema its index was built with, and set_indexed on an
\* already indexed field (with the same or a different schema) changes
\* neither the reported schema nor the built index.
C39_RegistryConsistent ==
    []RegistryConsistent /\ [][SetIndexedAgainKeeps]_vars

\* ---------------------------------------------------------------- C40
\* C40: every leaf cardinality estimate satisfies
\* 0 <= min <= exp <= max <= total points.  HasId gives min = exp = max = the
\* number of distinct listed ids that map to an internal id; IsEmpty and
\* IsNull give min = 0 and, on an indexed field, exp = max = total minus the
\* largest indexed-point count of the field's indexes, 0 when that count
\* exceeds the total, and on a non-indexed field exp = total / 2 and
\* max = total; a field condition that no index estimates gets
\* {min 0, exp total / 2, max total}.
LeafEstimate(s, c, field_indexes) ==
    LET est == condition_cardinality(s, c, field_indexes)
        total == Cardinality({p \in PointIds : internal_id(s.id_tracker, p) # None})
        indexes == CHOOSE l \in field_indexes : TRUE
        largest == CHOOSE n \in 0..MaxInternal :
                      /\ \A i \in 1..Len(indexes) : indexes[i].count_indexed_points <= n
                      /\ \E i \in 1..Len(indexes) : indexes[i].count_indexed_points = n
        rest == IF largest > total THEN 0 ELSE total - largest
    IN /\ 0 <= est.min /\ est.min <= est.exp /\ est.exp <= est.max
       /\ est.max <= total
       /\ c.kind = "HasId" =>
            LET n == Cardinality({p \in c.ids : internal_id(s.id_tracker, p) # None})
            IN est.min = n /\ est.exp = n /\ est.max = n
       /\ c.kind \in {"IsEmpty", "IsNull"} /\ field_indexes # {} =>
            est.min = 0 /\ est.exp = rest /\ est.max = rest
       /\ c.kind \in {"IsEmpty", "IsNull"} /\ field_indexes = {} =>
            est.min = 0 /\ est.exp = total \div 2 /\ est.max = total
       /\ /\ c.kind = "Field"
          /\ \/ field_indexes = {}
             \/ \A i \in 1..Len(indexes) : indexes[i].estimate_cardinality = {}
          => est.min = 0 /\ est.exp = total \div 2 /\ est.max = total

C40_LeafEstimates ==
    \A c \in LeafConditions :
        \A field_indexes \in FieldIndexLists(shard.segment, c) :
            LeafEstimate(shard.segment, c, field_indexes)

\* Two points in a segment with the key indexed, one of them indexed: IsEmpty
\* is estimated at one point, and a HasId of both ids at two.
C40_Witness ==
    LET s == shard.segment
        one == {<<[count_indexed_points |-> 1, estimate_cardinality |-> {}]>>}
    IN /\ "k" \in s.payload_index.field_indexes
       /\ total_points(s) = 2
       /\ MatchCount(s, [kind |-> "IsEmpty", key |-> "k", ids |-> {}]) = 1
       /\ condition_cardinality(s, [kind |-> "IsEmpty", key |-> "k", ids |-> {}], one)
            = [min |-> 0, exp |-> 1, max |-> 1]
       /\ condition_cardinality(s, [kind |-> "HasId", key |-> "", ids |-> PointIds], {})
            = exact(2)
       /\ condition_cardinality(s, [kind |-> "Field", key |-> "k", ids |-> {}], one)
            = [min |-> 0, exp |-> 1, max |-> 2]

====
